---- MODULE Spec2Model ----
(***************************************************************************)
(* A model of the trust layer of bitwarden_rs: the purpose-scoped JWT      *)
(* codec and the Headers request guard (src/auth.rs), the account handlers *)
(* that change or remove a user (src/api/core/accounts.rs), the            *)
(* emergency-access record and its persistence                             *)
(* (src/db/models/emergency_access.rs) and the two scheduler jobs that     *)
(* drive the time-gated tail of the emergency-access workflow              *)
(* (src/jobs.rs).                                                          *)
(*                                                                         *)
(* Time is Utc::now() in seconds.  Option<T> is a sequence: <<>> is None   *)
(* and <<v>> is Some(v).                                                   *)
(***************************************************************************)
EXTENDS Integers, Sequences, FiniteSets, TLC

VARIABLES
    now,            \* Utc::now(), seconds
    users,          \* the users table: uuid -> row
    devices,        \* the devices table: device uuid -> row
    store,          \* the emergency_accesses table: uuid -> row or NoRow
    next_uuid,      \* how many uuids util::get_uuid() has handed out
    mail_enabled,   \* CONFIG.mail_enabled()
    sched,          \* the clokwerk scheduler holding the two jobs
    job,            \* the job run in progress, or the last one that ended
    mails,          \* every mail send attempted so far
    auto_approved,  \* uuids the timeout job has moved to RecoveryApproved
    domain_origin,  \* CONFIG.domain_origin()
    issued,         \* the tokens encode_jwt has signed
    last_decode,    \* the last call of a decode_* function and its result
    last_request,   \* the last request that went through the Headers guard
    members,        \* the users_organizations table: user, org -> Option row
    process,        \* the server process and its two Lazy key statics
    attachments,    \* the attachments table and the stored files, by id
    deletion        \* the Attachment deletion in progress, or the last one

vars == <<now, users, devices, store, next_uuid, mail_enabled, sched, job,
          mails, auto_approved, domain_origin, issued, last_decode,
          last_request, members, process, attachments, deletion>>

emergencyVars == <<store, next_uuid, sched, job, mails, auto_approved>>
authVars ==
    <<issued, last_decode, last_request, members, process, attachments,
      deletion>>

(***************************************************************************)
(* Bounds of the model and units of time.                                  *)
(***************************************************************************)
MaxTicks == 3          \* clock steps of the emergency-access specification
MaxRecords == 2        \* emergency-access records ever created
HourSecs == 3600       \* chrono: Duration::hours(1) in seconds
DaySecs == 86400       \* chrono: Duration::days(1) in seconds

Uuids == {"u1", "u2"}                 \* user uuids
WaitDays == {1, 2}                    \* wait_time_days an invite may carry

None == <<>>
Some(v) == <<v>>
is_some(o) == o # <<>>
is_none(o) == o = <<>>
unwrap(o) == o[1]

Days(n) == n * DaySecs                \* chrono Duration::days(n)
Hours(n) == n * HourSecs              \* chrono Duration::hours(n)

\* CONFIG.job_frequency_hour(): the interval of both jobs, in hours.
job_frequency_hour == 12

(***************************************************************************)
(* EmergencyAccessStatus and EmergencyAccessType                           *)
(***************************************************************************)
Invited == 0
Accepted == 1
Confirmed == 2
RecoveryInitiated == 3
RecoveryApproved == 4

View == 0
Takeover == 1

\* Record uuids are the numbers util::get_uuid() hands out, 1, 2, ...; NoRow
\* stands for "no row with this uuid".
NoRow == [uuid |-> 0]
EaUuids == 1..MaxRecords

\* An EmergencyAccess::new that stamps recovery_initiated_at at creation.
EmergencyAccess_new_initiated(uuid, grantor_uuid, email, status, atype, wait_time_days) ==
    [uuid |-> uuid,
     grantor_uuid |-> grantor_uuid,
     grantee_uuid |-> None,
     email |-> email,
     status |-> status,
     atype |-> atype,
     wait_time_days |-> wait_time_days,
     recovery_initiated_at |-> Some(now),
     created_at |-> now,
     updated_at |-> now,
     key_encrypted |-> None,
     last_notification_at |-> None]

\* EmergencyAccess::new
EmergencyAccess_new(uuid, grantor_uuid, email, status, atype, wait_time_days) ==
    [uuid |-> uuid,
     grantor_uuid |-> grantor_uuid,
     grantee_uuid |-> None,
     email |-> email,
     status |-> status,
     atype |-> atype,
     wait_time_days |-> wait_time_days,
     recovery_initiated_at |-> None,
     created_at |-> now,
     updated_at |-> now,
     key_encrypted |-> None,
     last_notification_at |-> None]

\* EmergencyAccess::get_atype_as_str
get_atype_as_str(emer) == IF emer.atype = View THEN "View" ELSE "Takeovver"

\* User::update_uuid_revision, as EmergencyAccess::save and ::delete call it:
\* the grantor's revision date becomes now (no row, no change).
update_uuid_revision(us, uuid) ==
    IF us[uuid].exists THEN [us EXCEPT ![uuid].updated_at = now] ELSE us

\* User::find_by_uuid
User_find_by_uuid(uuid) == IF users[uuid].exists THEN Some(uuid) ELSE None

\* The row EmergencyAccess::save writes: the caller's copy with updated_at
\* refreshed.
SavedRow(emer) == [emer EXCEPT !.updated_at = now]

\* An EmergencyAccess::save that only updates: nothing is written when no
\* row has the id.
EmergencyAccess_save_update_only(emer) ==
    /\ users' = update_uuid_revision(users, emer.grantor_uuid)
    /\ store' = IF store[emer.uuid] # NoRow
                THEN [store EXCEPT ![emer.uuid] = SavedRow(emer)]
                ELSE store

\* An EmergencyAccess::save that does not call User::update_uuid_revision.
EmergencyAccess_save_unrevised(emer) ==
    /\ users' = users
    /\ store' = [store EXCEPT ![emer.uuid] = SavedRow(emer)]

\* EmergencyAccess::save: bump the grantor's revision, refresh updated_at,
\* then upsert the whole row under its uuid (insert when absent, replace
\* every column when present).
EmergencyAccess_save(emer) ==
    /\ users' = update_uuid_revision(users, emer.grantor_uuid)
    /\ store' = [store EXCEPT ![emer.uuid] = SavedRow(emer)]

\* EmergencyAccess::delete
EmergencyAccess_delete(emer) ==
    /\ users' = update_uuid_revision(users, emer.grantor_uuid)
    /\ store' = [store EXCEPT ![emer.uuid] = NoRow]

\* EmergencyAccess::find_by_uuid
EmergencyAccess_find_by_uuid(uuid) ==
    IF store[uuid] # NoRow THEN Some(store[uuid]) ELSE None

\* EmergencyAccess::find_by_grantor_uuid_and_grantee_uuid_or_email
find_by_grantor_uuid_and_grantee_uuid_or_email(grantor_uuid, grantee_uuid, email) ==
    LET hits == {u \in EaUuids :
                   /\ store[u] # NoRow
                   /\ store[u].grantor_uuid = grantor_uuid
                   /\ \/ store[u].grantee_uuid = Some(grantee_uuid)
                      \/ store[u].email = Some(email)}
    IN  IF hits = {} THEN None ELSE Some(store[CHOOSE u \in hits : TRUE])

\* The uuids EmergencyAccess::find_all_recoveries selects: status =
\* RecoveryInitiated.
RecoveryUuids ==
    {u \in EaUuids : store[u] # NoRow /\ store[u].status = RecoveryInitiated}

\* The orders in which the query may return the selected rows (it has no
\* ORDER BY).
RowOrders(S) ==
    {q \in UNION {[1..n -> S] : n \in {Cardinality(S)}} :
        \A i, j \in DOMAIN q : i # j => q[i] # q[j]}

\* EmergencyAccess::find_all_recoveries: copies of the selected rows.
find_all_recoveries ==
    {[i \in DOMAIN q |-> store[q[i]]] : q \in RowOrders(RecoveryUuids)}

(***************************************************************************)
(* The scheduler (init_jobs) and the state of a job run.                   *)
(*                                                                         *)
(* Both jobs are registered on one clokwerk Scheduler, which runs a        *)
(* pending job to its end before it looks at the next one: at most one     *)
(* run is in progress.  A run that panics (an .expect() on an Err or a     *)
(* None) unwinds out of the job function; whether the thread that drives   *)
(* the scheduler survives that is decided by the caller of init_jobs.      *)
(***************************************************************************)
IdleJob ==
    [name |-> "none", running |-> FALSE, pending |-> <<>>, cur |-> None,
     result |-> ""]

\* The run is over: the function returned ("ok") or unwound with a panic
\* message.  Nothing after a panicking expression runs, the rest of the
\* fetched rows included.
Ended(name, result) == [IdleJob EXCEPT !.name = name, !.result = result]

StartedJob(name, rows) ==
    IF rows = <<>>
    THEN Ended(name, "ok")
    ELSE [name |-> name, running |-> TRUE, pending |-> rows, cur |-> None,
          result |-> ""]

Panicked(msg) == Ended(job.name, msg)

\* The for loop moves on: to the next row, or out of the function.
LoopOn(j) ==
    IF j.pending = <<>> /\ j.cur = None THEN Ended(j.name, "ok") ELSE j

Mail(kind, emer, to, ok) ==
    [kind |-> kind, ea |-> emer.uuid, to |-> to, at |-> now, ok |-> ok]

\* jobs.rs, line 49: the row is due for the automatic approval.
TimeoutDue(emer) ==
    /\ is_some(emer.recovery_initiated_at)
    /\ now >= unwrap(emer.recovery_initiated_at) + Days(emer.wait_time_days)

\* jobs.rs, line 98: the row is due for a reminder.
ReminderDue(emer) ==
    /\ is_some(emer.recovery_initiated_at)
    /\ now >= unwrap(emer.recovery_initiated_at) + Days(emer.wait_time_days - 1)
    /\ \/ is_none(emer.last_notification_at)
       \/ /\ is_some(emer.last_notification_at)
          /\ now >= unwrap(emer.last_notification_at) + Days(1)

\* A timeout job that saves the row without changing its status.
TimeoutRowStatusKept(emer) == emer

\* The row the timeout job saves for a due row.
TimeoutRow(emer) == [emer EXCEPT !.status = RecoveryApproved]

\* The row the reminder job saves for a due row.
ReminderRow(emer) == emer

(***************************************************************************)
(* emergency_request_timed_out_job                                         *)
(***************************************************************************)
\* Lines 38-46: the scheduler fires the job, which fetches the rows in
\* RecoveryInitiated.
emergency_request_timed_out_job ==
    /\ sched.alive
    /\ ~job.running
    /\ now >= sched.next_timeout
    /\ \E rows \in find_all_recoveries :
           job' = StartedJob("timeout", rows)
    /\ sched' = [sched EXCEPT !.next_timeout = now + Hours(job_frequency_hour)]
    /\ UNCHANGED <<now, users, devices, store, next_uuid, mail_enabled, mails,
                   auto_approved, domain_origin, authVars>>

\* A timeout job that looks up the grantor and the grantee of a due row
\* before it sets and saves the status.
timed_out_row_lookup_first ==
    /\ job.running /\ job.name = "timeout"
    /\ job.cur = None /\ job.pending # <<>>
    /\ LET emer == Head(job.pending)
           j == [job EXCEPT !.pending = Tail(job.pending)]
           found == /\ is_some(User_find_by_uuid(emer.grantor_uuid))
                    /\ is_some(emer.grantee_uuid)
                    /\ is_some(User_find_by_uuid(unwrap(emer.grantee_uuid)))
       IN  IF TimeoutDue(emer) /\ mail_enabled /\ ~found
           THEN /\ job' = Panicked("Grantor user not found.")
                /\ sched' \in {[sched EXCEPT !.alive = a] : a \in BOOLEAN}
                /\ UNCHANGED <<users, store, auto_approved>>
           ELSE IF TimeoutDue(emer)
           THEN /\ EmergencyAccess_save(TimeoutRow(emer))
                /\ auto_approved' = auto_approved \cup {emer.uuid}
                /\ job' = LoopOn([j EXCEPT
                              !.cur = IF mail_enabled
                                      THEN Some(SavedRow(TimeoutRow(emer)))
                                      ELSE None])
                /\ UNCHANGED sched
           ELSE /\ job' = LoopOn(j)
                /\ UNCHANGED <<users, store, auto_approved, sched>>
    /\ UNCHANGED <<now, devices, next_uuid, mail_enabled, mails,
                   domain_origin, authVars>>

\* Lines 48-56: the loop takes the next fetched row, tests it against the
\* clock, and for a due row sets the status and saves; with mail enabled the
\* row then goes on to its notifications.
timed_out_row ==
    /\ job.running /\ job.name = "timeout"
    /\ job.cur = None /\ job.pending # <<>>
    /\ LET emer == Head(job.pending)
           j == [job EXCEPT !.pending = Tail(job.pending)]
       IN  IF TimeoutDue(emer)
           THEN /\ EmergencyAccess_save(TimeoutRow(emer))
                /\ auto_approved' = auto_approved \cup {emer.uuid}
                /\ job' = LoopOn([j EXCEPT
                              !.cur = IF mail_enabled
                                      THEN Some(SavedRow(TimeoutRow(emer)))
                                      ELSE None])
           ELSE /\ job' = LoopOn(j)
                /\ UNCHANGED <<users, store, auto_approved>>
    /\ UNCHANGED <<now, devices, next_uuid, mail_enabled, sched, mails,
                   domain_origin, authVars>>

\* Lines 57-81: look up the grantor and the grantee, then send the timed-out
\* mail to the grantor and the approved mail to the grantee.  Every lookup
\* and every send is followed by .expect(): a missing user or a failed send
\* panics.  A panic leaves the scheduler alive or not, as its caller has it.
timed_out_notify ==
    /\ job.running /\ job.name = "timeout" /\ job.cur # None
    /\ LET emer == unwrap(job.cur)
           grantor == User_find_by_uuid(emer.grantor_uuid)
           grantee == IF is_some(emer.grantee_uuid)
                      THEN User_find_by_uuid(unwrap(emer.grantee_uuid))
                      ELSE None
           done == LoopOn([job EXCEPT !.cur = None])
       IN  IF is_none(grantor) \/ is_none(grantee)
           THEN /\ job' = Panicked(
                        IF is_none(grantor) THEN "Grantor user not found."
                        ELSE IF is_none(emer.grantee_uuid)
                             THEN "Grantee user invalid."
                             ELSE "Grantee user not found.")
                /\ sched' \in {[sched EXCEPT !.alive = a] : a \in BOOLEAN}
                /\ UNCHANGED mails
           ELSE \E ok1, ok2 \in BOOLEAN :
                LET m1 == Mail("recovery_timed_out", emer, unwrap(grantor), ok1)
                    m2 == Mail("recovery_approved", emer, unwrap(grantee), ok2)
                IN  IF ~ok1
                    THEN /\ ok2
                         /\ mails' = mails \cup {m1}
                         /\ job' = Panicked("Error on sending email")
                         /\ sched' \in {[sched EXCEPT !.alive = a] :
                                            a \in BOOLEAN}
                    ELSE IF ~ok2
                    THEN /\ mails' = mails \cup {m1, m2}
                         /\ job' = Panicked("Error on sending email")
                         /\ sched' \in {[sched EXCEPT !.alive = a] :
                                            a \in BOOLEAN}
                    ELSE /\ mails' = mails \cup {m1, m2}
                         /\ job' = done
                         /\ UNCHANGED sched
    /\ UNCHANGED <<now, users, devices, store, next_uuid, mail_enabled,
                   auto_approved, domain_origin, authVars>>

(***************************************************************************)
(* emergency_notification_reminder_job                                     *)
(***************************************************************************)
\* A reminder job that is started by a timer of its own, whatever the other
\* job is doing.
reminder_job_on_own_timer ==
    /\ sched.alive
    /\ now >= sched.next_reminder
    /\ \E rows \in find_all_recoveries :
           job' = StartedJob("reminder", rows)
    /\ sched' = [sched EXCEPT !.next_reminder = now + Hours(job_frequency_hour)]
    /\ UNCHANGED <<now, users, devices, store, next_uuid, mail_enabled, mails,
                   auto_approved, domain_origin, authVars>>

\* Lines 87-95.  Both jobs are registered on one scheduler with the same
\* interval, the timeout job first (lines 17-18): when both are pending the
\* timeout job runs first.
emergency_notification_reminder_job ==
    /\ sched.alive
    /\ ~job.running
    /\ now >= sched.next_reminder
    /\ now < sched.next_timeout
    /\ \E rows \in find_all_recoveries :
           job' = StartedJob("reminder", rows)
    /\ sched' = [sched EXCEPT !.next_reminder = now + Hours(job_frequency_hour)]
    /\ UNCHANGED <<now, users, devices, store, next_uuid, mail_enabled, mails,
                   auto_approved, domain_origin, authVars>>

\* Lines 97-107: for a due row the job saves its copy of the row as it
\* fetched it (no field is assigned before the save).
reminder_row ==
    /\ job.running /\ job.name = "reminder"
    /\ job.cur = None /\ job.pending # <<>>
    /\ LET emer == Head(job.pending)
           j == [job EXCEPT !.pending = Tail(job.pending)]
       IN  IF ReminderDue(emer)
           THEN /\ EmergencyAccess_save(ReminderRow(emer))
                /\ job' = LoopOn([j EXCEPT
                              !.cur = IF mail_enabled
                                      THEN Some(SavedRow(ReminderRow(emer)))
                                      ELSE None])
           ELSE /\ job' = LoopOn(j)
                /\ UNCHANGED <<users, store>>
    /\ UNCHANGED <<now, devices, next_uuid, mail_enabled, sched, mails,
                   auto_approved, domain_origin, authVars>>

\* Lines 108-125: look up both users, send the reminder to the grantor.
reminder_notify ==
    /\ job.running /\ job.name = "reminder" /\ job.cur # None
    /\ LET emer == unwrap(job.cur)
           grantor == User_find_by_uuid(emer.grantor_uuid)
           grantee == IF is_some(emer.grantee_uuid)
                      THEN User_find_by_uuid(unwrap(emer.grantee_uuid))
                      ELSE None
           done == LoopOn([job EXCEPT !.cur = None])
       IN  IF is_none(grantor) \/ is_none(grantee)
           THEN /\ job' = Panicked(
                        IF is_none(grantor) THEN "Grantor user not found."
                        ELSE IF is_none(emer.grantee_uuid)
                             THEN "Grantee user invalid."
                             ELSE "Grantee user not found.")
                /\ sched' \in {[sched EXCEPT !.alive = a] : a \in BOOLEAN}
                /\ UNCHANGED mails
           ELSE \E ok \in BOOLEAN :
                /\ mails' = mails \cup
                       {Mail("recovery_reminder", emer, unwrap(grantor), ok)}
                /\ IF ok
                   THEN job' = done /\ UNCHANGED sched
                   ELSE /\ job' = Panicked("Error on sending email")
                        /\ sched' \in {[sched EXCEPT !.alive = a] :
                                           a \in BOOLEAN}
    /\ UNCHANGED <<now, users, devices, store, next_uuid, mail_enabled,
                   auto_approved, domain_origin, authVars>>

(***************************************************************************)
(* The user-driven part of the emergency-access workflow: invite, accept,  *)
(* confirm, initiate-recovery, approve and cancel.  Each handler reads the *)
(* row, changes it and saves it (or deletes it) through the methods above. *)
(***************************************************************************)
InviteTypes == {Takeover}

\* The grantor invites the user with e-mail address `email`, whom they have
\* not invited yet.  (A user's e-mail address is written as the user's uuid.)
invite(grantor_uuid, email, atype, wait_time_days) ==
    /\ users[grantor_uuid].exists
    /\ email # grantor_uuid
    /\ is_none(find_by_grantor_uuid_and_grantee_uuid_or_email(
                   grantor_uuid, email, email))
    /\ next_uuid < MaxRecords
    /\ next_uuid' = next_uuid + 1
    /\ EmergencyAccess_save(
           EmergencyAccess_new(next_uuid + 1, grantor_uuid, Some(email),
                               Invited, atype, wait_time_days))
    /\ UNCHANGED <<now, devices, mail_enabled, sched, job, mails,
                   auto_approved, domain_origin, authVars>>

\* The invited user accepts: Invited -> Accepted, the grantee is bound.
accept(uuid) ==
    /\ is_some(EmergencyAccess_find_by_uuid(uuid))
    /\ LET emer == unwrap(EmergencyAccess_find_by_uuid(uuid))
       IN  /\ emer.status = Invited
           /\ users[unwrap(emer.email)].exists
           /\ EmergencyAccess_save([emer EXCEPT
                  !.status = Accepted,
                  !.grantee_uuid = Some(unwrap(emer.email))])
    /\ UNCHANGED <<now, devices, next_uuid, mail_enabled, sched, job, mails,
                   auto_approved, domain_origin, authVars>>

\* The grantor confirms: Accepted -> Confirmed, the key is stored.
confirm(uuid) ==
    /\ is_some(EmergencyAccess_find_by_uuid(uuid))
    /\ LET emer == unwrap(EmergencyAccess_find_by_uuid(uuid))
       IN  /\ emer.status = Accepted
           /\ users[emer.grantor_uuid].exists
           /\ EmergencyAccess_save([emer EXCEPT
                  !.status = Confirmed,
                  !.key_encrypted = Some("key")])
    /\ UNCHANGED <<now, devices, next_uuid, mail_enabled, sched, job, mails,
                   auto_approved, domain_origin, authVars>>

\* The grantee initiates the recovery: Confirmed -> RecoveryInitiated,
\* recovery_initiated_at is stamped.
initiate(uuid) ==
    /\ is_some(EmergencyAccess_find_by_uuid(uuid))
    /\ LET emer == unwrap(EmergencyAccess_find_by_uuid(uuid))
       IN  /\ emer.status = Confirmed
           /\ users[unwrap(emer.grantee_uuid)].exists
           /\ EmergencyAccess_save([emer EXCEPT
                  !.status = RecoveryInitiated,
                  !.recovery_initiated_at = Some(now)])
    /\ UNCHANGED <<now, devices, next_uuid, mail_enabled, sched, job, mails,
                   auto_approved, domain_origin, authVars>>

\* The grantor approves the recovery: RecoveryInitiated -> RecoveryApproved.
approve(uuid) ==
    /\ is_some(EmergencyAccess_find_by_uuid(uuid))
    /\ LET emer == unwrap(EmergencyAccess_find_by_uuid(uuid))
       IN  /\ emer.status = RecoveryInitiated
           /\ users[emer.grantor_uuid].exists
           /\ EmergencyAccess_save([emer EXCEPT !.status = RecoveryApproved])
    /\ UNCHANGED <<now, devices, next_uuid, mail_enabled, sched, job, mails,
                   auto_approved, domain_origin, authVars>>

\* The grantor cancels (or the grantee rejects): a row that is not yet
\* RecoveryApproved is removed.
cancel(uuid) ==
    /\ is_some(EmergencyAccess_find_by_uuid(uuid))
    /\ LET emer == unwrap(EmergencyAccess_find_by_uuid(uuid))
       IN  /\ emer.status < RecoveryApproved
           /\ users[emer.grantor_uuid].exists
           /\ EmergencyAccess_delete(emer)
    /\ UNCHANGED <<now, devices, next_uuid, mail_enabled, sched, job, mails,
                   auto_approved, domain_origin, authVars>>

(***************************************************************************)
(* accounts.rs: the handlers behind the Headers guard that change or       *)
(* remove the user.  `user` is headers.user, the row the guard loaded.     *)
(***************************************************************************)
\* User::reset_security_stamp: a fresh stamp, never one used before.
reset_security_stamp(row) == [row EXCEPT !.security_stamp = @ + 1]

\* post_sstamp, lines 141-154.
post_sstamp(user, password_ok) ==
    /\ users' = IF password_ok
                THEN [users EXCEPT ![user] = reset_security_stamp(@)]
                ELSE users
    /\ UNCHANGED devices

\* delete_account, lines 218-248: after the password check the ciphers and
\* folders are deleted (a failure there returns early), then the devices,
\* then the user row.
delete_account(user, password_ok, items_ok) ==
    IF password_ok /\ items_ok
    THEN /\ devices' = [d \in DOMAIN devices |->
                          IF devices[d].user_uuid = user
                          THEN [devices[d] EXCEPT !.exists = FALSE]
                          ELSE devices[d]]
         /\ users' = [users EXCEPT ![user].exists = FALSE]
    ELSE UNCHANGED <<users, devices>>

\* A user with a valid session deletes the account.
account_deleted(user) ==
    /\ users[user].exists
    /\ delete_account(user, TRUE, TRUE)
    /\ UNCHANGED <<now, emergencyVars, mail_enabled, domain_origin, authVars>>

(***************************************************************************)
(* attachment.rs: the attachments of one cipher.  Each has a row in the    *)
(* attachments table and a stored file.                                    *)
(***************************************************************************)
MaxAttachments == 3
AttachmentIds == 1..MaxAttachments
Retries == 10          \* let mut retries = 10

NoDeletion ==
    [phase |-> "idle", batch |-> FALSE, todo |-> <<>>, cur |-> None,
     retries |-> 0, attempts |-> 0, failed |-> {}, result |-> ""]

\* Attachment::find_by_cipher: the rows of the cipher, as the table returns
\* them (here by id).
find_by_cipher ==
    LET S == {a \in AttachmentIds : attachments[a].row}
        Sorted[T \in SUBSET AttachmentIds] ==
            IF T = {} THEN <<>>
            ELSE LET m == CHOOSE x \in T : \A y \in T : x <= y
                 IN  <<m>> \o Sorted[T \ {m}]
    IN  Sorted[S]

attachmentFrame ==
    <<now, users, devices, emergencyVars, mail_enabled, domain_origin, issued,
      last_decode, last_request, members, process>>

\* Attachment::delete is called for one attachment: retries starts at 10.
Entered(d, id) ==
    [d EXCEPT !.cur = Some(id), !.retries = Retries, !.attempts = 0]

\* A handler calls Attachment::delete for one attachment.
delete_called(id) ==
    /\ deletion.phase # "running"
    /\ attachments[id].row
    /\ deletion' = Entered([NoDeletion EXCEPT !.phase = "running"], id)
    /\ UNCHANGED <<attachments, attachmentFrame>>

\* Attachment::delete_all_by_cipher, lines 96-97: the rows are loaded and
\* the loop enters delete for the first; without rows it returns Ok.
delete_all_by_cipher_called ==
    /\ deletion.phase # "running"
    /\ LET rows == find_by_cipher
           d == [NoDeletion EXCEPT !.batch = TRUE]
       IN  deletion' =
               IF rows = <<>>
               THEN [d EXCEPT !.phase = "returned", !.result = "Ok"]
               ELSE Entered([d EXCEPT !.phase = "running",
                                      !.todo = Tail(rows)], Head(rows))
    /\ UNCHANGED <<attachments, attachmentFrame>>

\* Where the caller of a delete that returned goes on: with `?` an Err
\* leaves delete_all_by_cipher at once, an Ok takes the loop to the next
\* row or to the final Ok(()).
Returned(d, result) ==
    IF result = "Ok" /\ d.todo # <<>>
    THEN Entered([d EXCEPT !.todo = Tail(d.todo)], Head(d.todo))
    ELSE [d EXCEPT !.phase = "returned", !.cur = None, !.result = result]

\* Attachment::delete, lines 71-93: one pass of the loop.  execute_ok: the
\* DELETE statement succeeded; file_ok: util::delete_file removed the file
\* (its result is not looked at).
delete_attempt(execute_ok, file_ok) ==
    /\ deletion.phase = "running"
    /\ LET id == unwrap(deletion.cur)
           d == [deletion EXCEPT !.attempts = @ + 1]
       IN  IF execute_ok
           THEN /\ attachments' =
                     [attachments EXCEPT ![id] =
                         [row |-> FALSE, file |-> @.file /\ ~file_ok]]
                /\ deletion' = Returned(d, "Ok")
           ELSE /\ UNCHANGED attachments
                /\ deletion' =
                     IF d.retries < 1
                     THEN Returned([d EXCEPT !.failed = @ \cup {id}], "Err")
                     ELSE [d EXCEPT !.retries = @ - 1]
    /\ UNCHANGED attachmentFrame

NextAttachments ==
    \/ \E id \in AttachmentIds : delete_called(id)
    \/ delete_all_by_cipher_called
    \/ \E execute_ok \in BOOLEAN, file_ok \in BOOLEAN :
           delete_attempt(execute_ok, file_ok)

(***************************************************************************)
(* The emergency-access specification                                      *)
(***************************************************************************)
Orgs == {"o1"}                        \* organization uuids
DeviceIds == {"d1", "d2"}
DeviceOwner == [d \in DeviceIds |-> IF d = "d1" THEN "u1" ELSE "u2"]
Origins == {<<"https://a">>, <<"https://a", "|", "login">>}

Init ==
    /\ now = 0
    /\ users = [u \in Uuids |->
                   [exists |-> TRUE, security_stamp |-> 0, updated_at |-> 0]]
    /\ devices = [d \in DeviceIds |->
                     [exists |-> TRUE, user_uuid |-> DeviceOwner[d]]]
    /\ store = [u \in EaUuids |-> NoRow]
    /\ next_uuid = 0
    /\ mail_enabled \in BOOLEAN
    /\ sched = [alive |-> TRUE,
                next_timeout |-> Hours(job_frequency_hour),
                next_reminder |-> Hours(job_frequency_hour)]
    /\ job = IdleJob
    /\ mails = {}
    /\ auto_approved = {}
    /\ domain_origin \in Origins
    /\ issued = {}
    /\ last_decode = None
    /\ last_request = None
    /\ members = [u \in Uuids |-> [o \in Orgs |-> None]]
    /\ process = [running |-> TRUE,
                  PRIVATE_RSA_KEY |-> "unset",
                  PUBLIC_RSA_KEY |-> "unset"]
    /\ attachments = [a \in AttachmentIds |-> [row |-> TRUE, file |-> TRUE]]
    /\ deletion = NoDeletion

\* A job is due: the scheduler thread, which polls far more often than the
\* jobs' interval, starts it before the clock moves on.
JobDue ==
    sched.alive /\ (now >= sched.next_timeout \/ now >= sched.next_reminder)

\* Some recovery has been initiated.  Until then neither job finds a row and
\* nothing reads the clock: the model's clock starts with the first
\* initiation.
RecoveryStarted ==
    \E u \in EaUuids : store[u] # NoRow /\ store[u].status >= RecoveryInitiated

\* The clock moves on by one scheduler interval.  A run takes far less than
\* that: the clock does not move while a run is in progress or due.
Tick ==
    /\ now < MaxTicks * Hours(job_frequency_hour)
    /\ ~job.running /\ ~JobDue
    /\ RecoveryStarted
    /\ now' = now + Hours(job_frequency_hour)
    /\ UNCHANGED <<users, devices, emergencyVars, mail_enabled,
                   domain_origin, authVars>>

Next ==
    \/ Tick
    \/ \E g \in Uuids, e \in Uuids, t \in InviteTypes, w \in WaitDays :
           invite(g, e, t, w)
    \/ \E uuid \in EaUuids : accept(uuid)
    \/ \E uuid \in EaUuids : confirm(uuid)
    \/ \E uuid \in EaUuids : initiate(uuid)
    \/ \E uuid \in EaUuids : approve(uuid)
    \/ \E uuid \in EaUuids : cancel(uuid)
    \/ \E u \in Uuids : account_deleted(u)
    \/ emergency_request_timed_out_job
    \/ timed_out_row
    \/ timed_out_notify
    \/ emergency_notification_reminder_job
    \/ reminder_row
    \/ reminder_notify

\* The jobs never read the origin: one origin is enough.
InitJobs == Init /\ domain_origin = <<"https://a">>

Spec == InitJobs /\ [][Next]_vars

\* The scheduler thread polls for as long as it lives and a started job runs
\* on to its end or its panic; time passes.  The users' actions are under
\* no obligation.
JobsFairness ==
    /\ WF_vars(Tick)
    /\ WF_vars(emergency_request_timed_out_job)
    /\ WF_vars(timed_out_row)
    /\ WF_vars(timed_out_notify)
    /\ WF_vars(emergency_notification_reminder_job)
    /\ WF_vars(reminder_row)
    /\ WF_vars(reminder_notify)

SpecLive == InitJobs /\ [][Next]_vars /\ JobsFairness

InitAttachments ==
    Init /\ mail_enabled = FALSE /\ domain_origin = <<"https://a">>

SpecAttachments == InitAttachments /\ [][NextAttachments]_vars

(***************************************************************************)
(* auth.rs: JWT handling.                                                  *)
(*                                                                         *)
(* A string is a sequence of pieces, so that format!("{}|login", origin)   *)
(* is a concatenation.  A token is the claims it carries and the key that  *)
(* signed it; the claims of a struct are a record with the struct's        *)
(* fields.                                                                 *)
(***************************************************************************)
MaxTokens == 1        \* tokens ever issued
MaxStamp == 1         \* security-stamp resets per user
Leeway == 30          \* Validation.leeway, seconds
Minutes(n) == n * 60  \* chrono Duration::minutes(n)

DEFAULT_VALIDITY == Hours(2)
JWT_LOGIN_ISSUER == domain_origin \o <<"|", "login">>
JWT_INVITE_ISSUER == domain_origin \o <<"|", "invite">>
JWT_DELETE_ISSUER == domain_origin \o <<"|", "delete">>
JWT_VERIFYEMAIL_ISSUER == domain_origin \o <<"|", "verifyemail">>
JWT_ADMIN_ISSUER == domain_origin \o <<"|", "admin">>

\* The fields serde needs to build each claims struct.
BaseFields == {"nbf", "exp", "iss", "sub"}
LoginJWTClaims ==
    BaseFields \cup {"premium", "name", "email", "email_verified", "orgowner",
                     "orgadmin", "orguser", "orgmanager", "sstamp", "device",
                     "scope", "amr"}
InviteJWTClaims ==
    BaseFields \cup {"email", "org_id", "user_org_id", "invited_by_email"}
DeleteJWTClaims == BaseFields
VerifyEmailJWTClaims == BaseFields
AdminJWTClaims == BaseFields

\* encode_jwt: the claims signed with PRIVATE_RSA_KEY.
encode_jwt(claims) == [claims |-> claims, key |-> "PRIVATE_RSA_KEY"]

\* UserOrganization::find_by_user_and_org
find_by_user_and_org(user_uuid, org_uuid) ==
    IF org_uuid \in Orgs THEN members[user_uuid][org_uuid] ELSE None

\* The organizations in which the user is a confirmed member with the role.
OrgsAs(user_uuid, atype) ==
    {o \in Orgs :
        /\ is_some(members[user_uuid][o])
        /\ unwrap(members[user_uuid][o]).status = "Confirmed"
        /\ unwrap(members[user_uuid][o]).atype = atype}

\* The login claims as a login issues them for a user and a device: the
\* login issuer, valid from now for DEFAULT_VALIDITY, carrying the user's
\* current security stamp.
generate_login_claims(user_uuid, device_uuid) ==
    [nbf |-> now,
     exp |-> now + DEFAULT_VALIDITY,
     iss |-> JWT_LOGIN_ISSUER,
     sub |-> user_uuid,
     premium |-> TRUE,
     name |-> user_uuid,
     email |-> user_uuid,
     email_verified |-> TRUE,
     orgowner |-> OrgsAs(user_uuid, "Owner"),
     orgadmin |-> OrgsAs(user_uuid, "Admin"),
     orguser |-> OrgsAs(user_uuid, "User"),
     orgmanager |-> OrgsAs(user_uuid, "Manager"),
     sstamp |-> users[user_uuid].security_stamp,
     device |-> device_uuid,
     scope |-> <<"api", "offline_access">>,
     amr |-> <<"Application">>]

\* generate_invite_claims
generate_invite_claims(uuid, email, org_id, user_org_id, invited_by_email) ==
    [nbf |-> now,
     exp |-> now + Days(5),
     iss |-> JWT_INVITE_ISSUER,
     sub |-> uuid,
     email |-> email,
     org_id |-> org_id,
     user_org_id |-> user_org_id,
     invited_by_email |-> invited_by_email]

\* generate_delete_claims
generate_delete_claims(uuid) ==
    [nbf |-> now, exp |-> now + Days(5), iss |-> JWT_DELETE_ISSUER,
     sub |-> uuid]

\* generate_verify_email_claims
generate_verify_email_claims(uuid) ==
    [nbf |-> now, exp |-> now + Days(5), iss |-> JWT_VERIFYEMAIL_ISSUER,
     sub |-> uuid]

\* generate_admin_claims
generate_admin_claims ==
    [nbf |-> now, exp |-> now + Minutes(20), iss |-> JWT_ADMIN_ISSUER,
     sub |-> "admin_panel"]

Ok(v) == [ok |-> TRUE, value |-> v]
Err(e) == [ok |-> FALSE, error |-> e]

\* err_handler!(message): the guard fails with status Unauthorized and the
\* message, which is logged.
err_handler(message) ==
    [ok |-> FALSE, error |-> message, status |-> "Unauthorized"]

\* What the caller gets back from a guard's outcome: on a failure the
\* status, not the message.
Response(outcome) ==
    IF outcome.ok THEN [status |-> "Ok"] ELSE [status |-> outcome.status]

\* decode_jwt with Validation.iss left at None: any issuer passes.
IssuerNotValidated(claims, issuer) == TRUE

\* The issuer check of jsonwebtoken's validation: Validation.iss is
\* Some(issuer), and the token's iss must equal it.
IssuerMatches(claims, issuer) == claims.iss = issuer

\* A decode_jwt whose Validation has leeway 0.
decode_jwt_without_leeway(token, issuer, T) ==
    IF /\ token.key = "PRIVATE_RSA_KEY"
       /\ ~(token.claims.exp < now)
       /\ ~(token.claims.nbf > now)
       /\ IssuerMatches(token.claims, issuer)
       /\ T \subseteq DOMAIN token.claims
    THEN Ok(token.claims)
    ELSE Err("Error decoding JWT")

\* decode_jwt::<T>(token, issuer): the signature is verified with
\* PUBLIC_RSA_KEY; with validate_exp the token is refused once exp is more
\* than the leeway in the past, with validate_nbf while nbf is more than the
\* leeway in the future; iss must be the expected issuer; then the claims
\* are deserialized into T, which needs T's fields.
decode_jwt(token, issuer, T) ==
    IF /\ token.key = "PRIVATE_RSA_KEY"
       /\ ~(token.claims.exp < now - Leeway)
       /\ ~(token.claims.nbf > now + Leeway)
       /\ IssuerMatches(token.claims, issuer)
       /\ T \subseteq DOMAIN token.claims
    THEN Ok(token.claims)
    ELSE Err("Error decoding JWT")

decode_login(token) == decode_jwt(token, JWT_LOGIN_ISSUER, LoginJWTClaims)
decode_invite(token) == decode_jwt(token, JWT_INVITE_ISSUER, InviteJWTClaims)
decode_delete(token) == decode_jwt(token, JWT_DELETE_ISSUER, DeleteJWTClaims)
decode_verify_email(token) ==
    decode_jwt(token, JWT_VERIFYEMAIL_ISSUER, VerifyEmailJWTClaims)
decode_admin(token) == decode_jwt(token, JWT_ADMIN_ISSUER, AdminJWTClaims)

Purposes == {"login", "invite", "delete", "verifyemail", "admin"}

\* The issuer of a purpose and the decode function of a purpose.
IssuerOf(purpose) ==
    CASE purpose = "login" -> JWT_LOGIN_ISSUER
      [] purpose = "invite" -> JWT_INVITE_ISSUER
      [] purpose = "delete" -> JWT_DELETE_ISSUER
      [] purpose = "verifyemail" -> JWT_VERIFYEMAIL_ISSUER
      [] purpose = "admin" -> JWT_ADMIN_ISSUER

DecodeFor(purpose, token) ==
    CASE purpose = "login" -> decode_login(token)
      [] purpose = "invite" -> decode_invite(token)
      [] purpose = "delete" -> decode_delete(token)
      [] purpose = "verifyemail" -> decode_verify_email(token)
      [] purpose = "admin" -> decode_admin(token)

(***************************************************************************)
(* auth.rs: the Headers request guard.                                     *)
(***************************************************************************)
\* Device::find_by_uuid
Device_find_by_uuid(uuid) ==
    IF uuid \in DOMAIN devices /\ devices[uuid].exists
    THEN Some(devices[uuid]) ELSE None

\* Headers::from_request without the comparison of the security stamps.
HeadersGuardWithoutStamp(authorization, db_ok) ==
    IF is_none(authorization) THEN err_handler("No access token provided")
    ELSE LET decoded == decode_login(unwrap(authorization)) IN
    IF ~decoded.ok THEN err_handler("Invalid claim")
    ELSE LET claims == decoded.value IN
    IF ~db_ok THEN err_handler("Error getting DB")
    ELSE IF is_none(Device_find_by_uuid(claims.device))
    THEN err_handler("Invalid device id")
    ELSE IF is_none(User_find_by_uuid(claims.sub))
    THEN err_handler("Device has no user associated")
    ELSE Ok([device |-> claims.device, user |-> claims.sub, claims |-> claims])

\* A Headers::from_request whose stale-stamp failure carries a status of
\* its own.
HeadersGuardStampForbidden(authorization, db_ok) ==
    IF is_none(authorization) THEN err_handler("No access token provided")
    ELSE LET decoded == decode_login(unwrap(authorization)) IN
    IF ~decoded.ok THEN err_handler("Invalid claim")
    ELSE LET claims == decoded.value IN
    IF ~db_ok THEN err_handler("Error getting DB")
    ELSE IF is_none(Device_find_by_uuid(claims.device))
    THEN err_handler("Invalid device id")
    ELSE IF is_none(User_find_by_uuid(claims.sub))
    THEN err_handler("Device has no user associated")
    ELSE IF users[claims.sub].security_stamp # claims.sstamp
    THEN [ok |-> FALSE, error |-> "Invalid security stamp",
          status |-> "Forbidden"]
    ELSE Ok([device |-> claims.device, user |-> claims.sub, claims |-> claims])

\* Headers::from_request, lines 298-336.  `authorization` is the value of
\* the Authorization header, None without the header; a.rsplit("Bearer ")
\* always yields a token.  db_ok: the DbConn guard succeeded.
HeadersGuard(authorization, db_ok) ==
    IF is_none(authorization) THEN err_handler("No access token provided")
    ELSE LET decoded == decode_login(unwrap(authorization)) IN
    IF ~decoded.ok THEN err_handler("Invalid claim")
    ELSE LET claims == decoded.value IN
    IF ~db_ok THEN err_handler("Error getting DB")
    ELSE IF is_none(Device_find_by_uuid(claims.device))
    THEN err_handler("Invalid device id")
    ELSE IF is_none(User_find_by_uuid(claims.sub))
    THEN err_handler("Device has no user associated")
    ELSE IF users[claims.sub].security_stamp # claims.sstamp
    THEN err_handler("Invalid security stamp")
    ELSE Ok([device |-> claims.device, user |-> claims.sub, claims |-> claims])

\* A text as a sequence of pieces: the empty text has none.
Str(text) == IF text = "" THEN <<>> ELSE <<text>>

\* A host computation that looks at the Referer header before the
\* configured domain.
get_host_referer_first(h, cfg) ==
    IF is_some(h.referer) THEN Str(unwrap(h.referer))
    ELSE IF cfg.domain_set THEN cfg.domain
    ELSE LET protocol == IF is_some(h.x_forwarded_proto)
                         THEN unwrap(h.x_forwarded_proto)
                         ELSE IF cfg.rocket_tls THEN "https" ELSE "http"
             host == IF is_some(h.x_forwarded_host)
                     THEN unwrap(h.x_forwarded_host)
                     ELSE IF is_some(h.host) THEN unwrap(h.host)
                     ELSE ""
         IN  Str(protocol) \o <<"://">> \o Str(host)

\* Headers::from_request, lines 270-296: the host.  h holds the request's
\* Referer, X-Forwarded-Proto, X-Forwarded-Host and Host headers, each
\* absent or a text; cfg holds CONFIG.domain_set(), CONFIG.domain() and
\* whether the environment variable ROCKET_TLS is set.
get_host(h, cfg) ==
    IF cfg.domain_set THEN cfg.domain
    ELSE IF is_some(h.referer) THEN Str(unwrap(h.referer))
    ELSE LET protocol == IF is_some(h.x_forwarded_proto)
                         THEN unwrap(h.x_forwarded_proto)
                         ELSE IF cfg.rocket_tls THEN "https" ELSE "http"
             host == IF is_some(h.x_forwarded_host)
                     THEN unwrap(h.x_forwarded_host)
                     ELSE IF is_some(h.host) THEN unwrap(h.host)
                     ELSE ""
         IN  Str(protocol) \o <<"://">> \o Str(host)

\* Headers::from_request, whole: the host is computed first and cannot
\* fail, then the checks of lines 298-336; the Headers value carries the
\* host.
HeadersFromRequest(h, cfg, authorization, db_ok) ==
    LET host == get_host(h, cfg)
        g == HeadersGuard(authorization, db_ok)
    IN  IF g.ok
        THEN Ok([host |-> host, device |-> g.value.device,
                 user |-> g.value.user])
        ELSE g

(***************************************************************************)
(* auth.rs: client IP address detection.  A header value is a sequence of  *)
(* pieces, a comma being a piece of its own; a run of pieces without a     *)
(* comma is one stretch of text.                                           *)
(***************************************************************************)
IpTexts == {"1.2.3.4", "5.6.7.8"}

\* str::find(','): the position of the first comma.
find_comma(ip) ==
    IF \E i \in DOMAIN ip : ip[i] = ","
    THEN Some(CHOOSE i \in DOMAIN ip :
                  ip[i] = "," /\ \A j \in 1..(i - 1) : ip[j] # ",")
    ELSE None

\* str::parse::<IpAddr>(): the text must be exactly an address.
parse_ip(text) ==
    IF Len(text) = 1 /\ text[1] \in IpTexts THEN Some(text[1]) ELSE None

\* A ClientIp::from_request that parses the whole header value.
ClientIpFromWholeHeader(enabled, header, remote) ==
    LET ip == IF enabled /\ is_some(header)
              THEN parse_ip(unwrap(header))
              ELSE None
    IN  Ok([ip |-> IF is_some(ip) THEN unwrap(ip)
                   ELSE IF is_some(remote) THEN unwrap(remote)
                   ELSE "0.0.0.0"])

\* ClientIp::from_request.  enabled: CONFIG._ip_header_enabled(); header:
\* the value of the header CONFIG.ip_header() names, None when absent;
\* remote: the ip of req.remote(), None without a peer address.
ClientIpFromRequest(enabled, header, remote) ==
    LET ip == IF enabled /\ is_some(header)
              THEN LET v == unwrap(header)
                       idx == find_comma(v)
                   IN  parse_ip(IF is_some(idx)
                                THEN SubSeq(v, 1, unwrap(idx) - 1)
                                ELSE v)
              ELSE None
    IN  Ok([ip |-> IF is_some(ip) THEN unwrap(ip)
                   ELSE IF is_some(remote) THEN unwrap(remote)
                   ELSE "0.0.0.0"])

(***************************************************************************)
(* auth.rs: the organization guards.  A request carries, besides the       *)
(* Authorization header, the second path segment and the organizationId    *)
(* query value, each absent or a text.                                     *)
(***************************************************************************)
Roles == {"Owner", "Admin", "Manager", "User"}
MemberStatuses == {"Accepted", "Confirmed"}
MemberRows == [atype : Roles, status : MemberStatuses]

\* Texts a request may carry: two have the shape of a uuid ("o9" names no
\* organization), one does not.
UuidShaped == {"o1", "o9"}
Texts == UuidShaped \cup {"members"}
Params == {None} \cup {Some(t) : t \in Texts}

\* uuid::Uuid::parse_str(text).is_ok()
parse_str_is_ok(text) == text \in UuidShaped

\* A get_org_id that looks at the query value first.
get_org_id_query_first(param, query) ==
    IF is_some(query) /\ parse_str_is_ok(unwrap(query)) THEN query
    ELSE IF is_some(param) /\ parse_str_is_ok(unwrap(param)) THEN param
    ELSE None

\* get_org_id: the path segment when it parses as a uuid, else the query
\* value when that parses as a uuid, else None.
get_org_id(param, query) ==
    IF is_some(param) /\ parse_str_is_ok(unwrap(param)) THEN param
    ELSE IF is_some(query) /\ parse_str_is_ok(unwrap(query)) THEN query
    ELSE None

\* LoginJWTClaims::is_organization_owner and the three that build on it.
is_organization_owner(claims, org_uuid) == org_uuid \in claims.orgowner
is_organization_admin(claims, org_uuid) ==
    org_uuid \in claims.orgadmin \/ is_organization_owner(claims, org_uuid)
is_organization_manager(claims, org_uuid) ==
    org_uuid \in claims.orgmanager \/ is_organization_admin(claims, org_uuid)
is_organization_user(claims, org_uuid) ==
    org_uuid \in claims.orguser \/ is_organization_manager(claims, org_uuid)

\* An OrgHeaders::from_request that accepts a membership row of any status.
OrgHeadersGuardAnyStatus(req) ==
    LET headers == HeadersGuard(req.authorization, req.db_ok) IN
    IF ~headers.ok THEN headers
    ELSE LET org_id == get_org_id(req.param, req.query) IN
    IF is_none(org_id) THEN err_handler("Error getting the organization id")
    ELSE IF ~req.org_db_ok THEN err_handler("Error getting DB")
    ELSE LET row == find_by_user_and_org(headers.value.user, unwrap(org_id)) IN
    IF is_none(row)
    THEN err_handler("The current user isn't member of the organization")
    ELSE Ok([device |-> headers.value.device, user |-> headers.value.user,
             claims |-> headers.value.claims,
             context_org_uuid |-> unwrap(org_id)])

\* OrgHeaders::from_request: Headers first, its failure handed on; then the
\* organization id, a connection, and the membership row of the user in the
\* organization, which must be Confirmed.
OrgHeadersGuard(req) ==
    LET headers == HeadersGuard(req.authorization, req.db_ok) IN
    IF ~headers.ok THEN headers
    ELSE LET org_id == get_org_id(req.param, req.query) IN
    IF is_none(org_id) THEN err_handler("Error getting the organization id")
    ELSE IF ~req.org_db_ok THEN err_handler("Error getting DB")
    ELSE LET row == find_by_user_and_org(headers.value.user, unwrap(org_id)) IN
    IF is_none(row)
    THEN err_handler("The current user isn't member of the organization")
    ELSE IF unwrap(row).status # "Confirmed"
    THEN err_handler("The current user isn't confirmed member of the organization")
    ELSE Ok([device |-> headers.value.device, user |-> headers.value.user,
             claims |-> headers.value.claims,
             context_org_uuid |-> unwrap(org_id)])

\* An AdminHeaders::from_request that runs Headers and then tests the role
\* lists of the token, without the organization stage.
AdminHeadersGuardWithoutOrg(req) ==
    LET headers == HeadersGuard(req.authorization, req.db_ok)
        org_id == get_org_id(req.param, req.query)
    IN
    IF ~headers.ok THEN headers
    ELSE IF is_none(org_id)
    THEN err_handler("Error getting the organization id")
    ELSE IF is_organization_admin(headers.value.claims, unwrap(org_id))
    THEN Ok([device |-> headers.value.device, user |-> headers.value.user,
             claims |-> headers.value.claims,
             context_org_uuid |-> unwrap(org_id)])
    ELSE err_handler("You need to be Admin or Owner to call this endpoint")

\* AdminHeaders::from_request
AdminHeadersGuard(req) ==
    LET headers == OrgHeadersGuard(req) IN
    IF ~headers.ok THEN headers
    ELSE IF is_organization_admin(headers.value.claims,
                                  headers.value.context_org_uuid)
    THEN Ok(headers.value)
    ELSE err_handler("You need to be Admin or Owner to call this endpoint")

\* OwnerHeaders::from_request
OwnerHeadersGuard(req) ==
    LET headers == OrgHeadersGuard(req) IN
    IF ~headers.ok THEN headers
    ELSE IF is_organization_owner(headers.value.claims,
                                  headers.value.context_org_uuid)
    THEN Ok(headers.value)
    ELSE err_handler("You need to be Owner to call this endpoint")

(***************************************************************************)
(* The authentication specification: tokens are issued, presented to the   *)
(* decode functions and to guarded handlers, and time passes.              *)
(* last_decode and last_request hold the answer of a decode or a request   *)
(* until it is returned to the caller; handlers are atomic steps, so calls *)
(* are taken one after the other.                                          *)
(***************************************************************************)
authFrame ==
    <<now, emergencyVars, mail_enabled, domain_origin, members, process,
      attachments, deletion>>

\* No answer is waiting to be returned.
Served == is_none(last_decode) /\ is_none(last_request)

\* The answer of the last decode or request is returned to its caller.
reply ==
    /\ ~Served
    /\ last_decode' = None /\ last_request' = None
    /\ UNCHANGED <<authFrame, users, devices, issued>>

\* encode_jwt hands out a token for the claims.
issue_token(claims) ==
    /\ Served
    /\ Cardinality(issued) < MaxTokens
    /\ issued' = issued \cup {encode_jwt(claims)}
    /\ UNCHANGED <<authFrame, users, devices, last_decode, last_request>>

\* A login of an existing user on one of the user's devices.
login(user, device) ==
    /\ users[user].exists
    /\ devices[device].exists /\ devices[device].user_uuid = user
    /\ issue_token(generate_login_claims(user, device))

\* Tokens a client can present: the issued ones, and issued claims altered
\* by someone without the private key.
Tampered ==
    {[claims |-> [t.claims EXCEPT !.iss = IssuerOf(q)], key |-> "OTHER_KEY"] :
        t \in issued, q \in Purposes}
Presentable == issued \cup Tampered

\* A token is handed to the decode function of a purpose.
decode(purpose, token) ==
    /\ Served
    /\ last_decode' = Some([purpose |-> purpose, token |-> token,
                            result |-> DecodeFor(purpose, token)])
    /\ UNCHANGED <<authFrame, users, devices, issued, last_request>>

\* A request to a handler that takes Headers: the guard runs first, the
\* handler only when the guard succeeds.  The answer records the guard's
\* outcome and the handler reached.
answered(authorization, g, name) ==
    /\ last_request' = Some([authorization |-> authorization,
                             outcome |-> IF g.ok THEN "Success" ELSE g.error,
                             handler |-> IF g.ok THEN name ELSE "none"])
    /\ UNCHANGED <<authFrame, issued, last_decode>>

\* profile: reads the user, changes nothing.
profile(user) == UNCHANGED <<users, devices>>

request_profile(authorization, db_ok) ==
    LET g == HeadersGuard(authorization, db_ok) IN
    /\ Served
    /\ IF g.ok THEN profile(g.value.user) ELSE UNCHANGED <<users, devices>>
    /\ answered(authorization, g, "profile")

request_post_sstamp(authorization, db_ok, password_ok) ==
    LET g == HeadersGuard(authorization, db_ok) IN
    /\ Served
    /\ \A u \in Uuids : users[u].security_stamp < MaxStamp
    /\ IF g.ok THEN post_sstamp(g.value.user, password_ok)
               ELSE UNCHANGED <<users, devices>>
    /\ answered(authorization, g, "post_sstamp")

request_delete_account(authorization, db_ok, password_ok, items_ok) ==
    LET g == HeadersGuard(authorization, db_ok) IN
    /\ Served
    /\ IF g.ok THEN delete_account(g.value.user, password_ok, items_ok)
               ELSE UNCHANGED <<users, devices>>
    /\ answered(authorization, g, "delete_account")

\* The instants at which the answer for some issued token changes.
AuthInstants ==
    UNION {{t.claims.exp, t.claims.exp + Leeway, t.claims.exp + Leeway + 1} :
              t \in issued}

\* Time passes, up to the next instant that matters to some token.
AuthTick ==
    /\ Served
    /\ \E t \in AuthInstants :
           /\ t > now
           /\ \A t2 \in AuthInstants : t2 > now => t <= t2
           /\ now' = t
    /\ UNCHANGED <<users, devices, emergencyVars, mail_enabled,
                   domain_origin, authVars>>

Authorizations == {None} \cup {Some(t) : t \in Presentable}

NextAuth ==
    \/ AuthTick
    \/ reply
    \/ \E u \in Uuids, d \in DeviceIds : login(u, d)
    \/ \E u \in Uuids :
           issue_token(generate_invite_claims(u, u, None, None, None))
    \/ \E u \in Uuids : issue_token(generate_delete_claims(u))
    \/ \E u \in Uuids : issue_token(generate_verify_email_claims(u))
    \/ issue_token(generate_admin_claims)
    \/ \E q \in Purposes, t \in Presentable : decode(q, t)
    \/ \E a \in Authorizations, db_ok \in BOOLEAN : request_profile(a, db_ok)
    \/ \E a \in Authorizations, db_ok \in BOOLEAN, pw \in BOOLEAN :
           request_post_sstamp(a, db_ok, pw)
    \/ \E a \in Authorizations, db_ok \in BOOLEAN, pw \in BOOLEAN,
          items_ok \in BOOLEAN :
           request_delete_account(a, db_ok, pw, items_ok)

\* Authentication never reads the mail setting.
InitAuth == Init /\ mail_enabled = FALSE

SpecAuth == InitAuth /\ [][NextAuth]_vars

(***************************************************************************)
(* The validation specification: tokens come from instances whose clock is *)
(* ahead of the validating instance's, and are decoded as time passes.     *)
(***************************************************************************)
\* How far the issuing instance's clock is ahead: not at all, by the leeway,
\* by more than the leeway.
Skews == {0, Leeway, Leeway + 1}

\* The claims an instance with that clock generates: nbf and exp are taken
\* from its Utc::now().
skewed(claims, skew) ==
    [claims EXCEPT !.nbf = @ + skew, !.exp = @ + skew]

\* The claims the generate_* functions produce now, one per purpose.
GeneratedClaims ==
    {generate_login_claims(u, d) :
        u \in {x \in Uuids : users[x].exists},
        d \in {y \in DeviceIds : devices[y].exists}}
    \cup {generate_invite_claims(u, u, None, None, None) : u \in Uuids}
    \cup {generate_delete_claims(u) : u \in Uuids}
    \cup {generate_verify_email_claims(u) : u \in Uuids}
    \cup {generate_admin_claims}

\* The instants at which the answer for some issued token changes.
ValidationInstants ==
    UNION {{t.claims.nbf - Leeway - 1, t.claims.nbf - Leeway,
            t.claims.exp, t.claims.exp + Leeway, t.claims.exp + Leeway + 1} :
              t \in issued}

ValidationTick ==
    /\ Served
    /\ \E t \in ValidationInstants :
           /\ t > now
           /\ \A t2 \in ValidationInstants : t2 > now => t <= t2
           /\ now' = t
    /\ UNCHANGED <<users, devices, emergencyVars, mail_enabled,
                   domain_origin, authVars>>

NextValidation ==
    \/ ValidationTick
    \/ reply
    \/ \E claims \in GeneratedClaims, skew \in Skews :
           issue_token(skewed(claims, skew))
    \/ \E q \in Purposes, t \in Presentable : decode(q, t)

InitValidation == Init /\ mail_enabled = FALSE /\ domain_origin = <<"https://a">>

SpecValidation == InitValidation /\ [][NextValidation]_vars

(***************************************************************************)
(* The origin specification: requests with and without the headers the     *)
(* host is computed from, under each configuration.                        *)
(***************************************************************************)
HeaderSets ==
    [referer : {None, Some("https://referer")},
     x_forwarded_proto : {None, Some("https")},
     x_forwarded_host : {None, Some("forwarded.example")},
     host : {None, Some("host.example")}]

\* The configuration the process runs with: CONFIG.domain is set or left
\* to its default, ROCKET_TLS is set or not.
Configs ==
    [domain_set : BOOLEAN, domain : {<<"https://vault.example">>},
     rocket_tls : BOOLEAN]

\* A request to profile, a handler that takes Headers.
request_with_headers(h, cfg, authorization, db_ok) ==
    LET g == HeadersFromRequest(h, cfg, authorization, db_ok) IN
    /\ Served
    /\ IF g.ok THEN profile(g.value.user) ELSE UNCHANGED <<users, devices>>
    /\ last_request' = Some([authorization |-> authorization,
                             db_ok |-> db_ok, headers |-> h, config |-> cfg,
                             outcome |-> IF g.ok THEN "Success" ELSE g.error,
                             host |-> IF g.ok THEN Some(g.value.host)
                                              ELSE None,
                             handler |-> IF g.ok THEN "profile" ELSE "none"])
    /\ UNCHANGED <<authFrame, issued, last_decode>>

NextOrigin ==
    \/ reply
    \/ \E u \in Uuids, d \in DeviceIds : login(u, d)
    \/ \E h \in HeaderSets, cfg \in Configs, a \in Authorizations,
          db_ok \in BOOLEAN :
           request_with_headers(h, cfg, a, db_ok)

InitOrigin == Init /\ mail_enabled = FALSE /\ domain_origin = <<"https://a">>

SpecOrigin == InitOrigin /\ [][NextOrigin]_vars

(***************************************************************************)
(* The client-address specification: requests to a handler that takes      *)
(* ClientIp.                                                               *)
(***************************************************************************)
MaxPieces == 3
Pieces == IpTexts \cup {"bogus", ","}
HeaderValues == UNION {[1..n -> Pieces] : n \in 0..MaxPieces}
IpHeaders == {None} \cup {Some(v) : v \in HeaderValues}
Remotes == {None, Some("9.9.9.9")}

request_client_ip(enabled, header, remote) ==
    LET g == ClientIpFromRequest(enabled, header, remote) IN
    /\ Served
    /\ last_request' = Some([enabled |-> enabled, header |-> header,
                             remote |-> remote,
                             outcome |-> IF g.ok THEN "Success" ELSE "Failure",
                             ip |-> IF g.ok THEN Some(g.value.ip) ELSE None])
    /\ UNCHANGED <<authFrame, users, devices, issued, last_decode>>

NextClientIp ==
    \/ reply
    \/ \E enabled \in BOOLEAN, header \in IpHeaders, remote \in Remotes :
           request_client_ip(enabled, header, remote)

InitClientIp == Init /\ mail_enabled = FALSE /\ domain_origin = <<"https://a">>

SpecClientIp == InitClientIp /\ [][NextClientIp]_vars

(***************************************************************************)
(* The key specification: the process after its start, the two key         *)
(* statics not yet touched, serving requests that sign a token, verify a   *)
(* token, or use no token at all.                                          *)
(***************************************************************************)
\* once_cell's Lazy on deref: a set cell is returned as it is; an unset
\* cell runs its initializer, read_file of the configured path, and is set
\* when that returns Ok; the initializer panics when it returns Err and
\* the cell stays poisoned, panicking on every later deref.
Lazy_force(cell, file_ok) ==
    IF cell = "set" THEN "set"
    ELSE IF cell = "unset" /\ file_ok THEN "set"
    ELSE "poisoned"

\* What is left of the process after a handler panicked: the panic takes
\* down the worker that ran the handler, or the whole process.
AfterPanic(p) == {p, [p EXCEPT !.running = FALSE]}

keys_answer(kind, outcome, p) ==
    last_request' = Some([kind |-> kind, outcome |-> outcome,
                          PRIVATE_RSA_KEY |-> p.PRIVATE_RSA_KEY,
                          PUBLIC_RSA_KEY |-> p.PUBLIC_RSA_KEY])

keysFrame == <<now, emergencyVars, mail_enabled, domain_origin, members,
               users, devices, last_decode, attachments, deletion>>

\* A request whose handler signs claims: encode_jwt derefs PRIVATE_RSA_KEY.
request_encoding(claims, file_ok) ==
    LET cell == Lazy_force(process.PRIVATE_RSA_KEY, file_ok)
        p == [process EXCEPT !.PRIVATE_RSA_KEY = cell]
    IN  /\ process.running /\ Served
        /\ Cardinality(issued) < MaxTokens
        /\ IF cell = "set"
           THEN /\ issued' = issued \cup {encode_jwt(claims)}
                /\ process' = p
                /\ keys_answer("encode", "Success", p)
           ELSE /\ issued' = issued
                /\ process' \in AfterPanic(p)
                /\ keys_answer("encode", "panic", p)
        /\ UNCHANGED keysFrame

\* A request whose guard or handler verifies a token: decode_jwt derefs
\* PUBLIC_RSA_KEY.
request_decoding(q, token, file_ok) ==
    LET cell == Lazy_force(process.PUBLIC_RSA_KEY, file_ok)
        p == [process EXCEPT !.PUBLIC_RSA_KEY = cell]
    IN  /\ process.running /\ Served
        /\ IF cell = "set"
           THEN /\ process' = p
                /\ keys_answer("decode",
                               IF DecodeFor(q, token).ok THEN "Success"
                               ELSE DecodeFor(q, token).error, p)
           ELSE /\ process' \in AfterPanic(p)
                /\ keys_answer("decode", "panic", p)
        /\ UNCHANGED <<keysFrame, issued>>

\* A request that takes no guard and handles no token: neither static is
\* touched.
request_without_token ==
    /\ process.running /\ Served
    /\ keys_answer("none", "Success", process)
    /\ UNCHANGED <<keysFrame, issued, process>>

NextKeys ==
    \/ reply
    \/ \E claims \in GeneratedClaims, file_ok \in BOOLEAN :
           request_encoding(claims, file_ok)
    \/ \E q \in Purposes, t \in Presentable, file_ok \in BOOLEAN :
           request_decoding(q, t, file_ok)
    \/ request_without_token

InitKeys == Init /\ mail_enabled = FALSE /\ domain_origin = <<"https://a">>

SpecKeys == InitKeys /\ [][NextKeys]_vars

(***************************************************************************)
(* The organization specification: memberships change, users log in, and   *)
(* requests go through OrgHeaders, AdminHeaders and OwnerHeaders.          *)
(***************************************************************************)
\* The requests of a state.  db_ok and org_db_ok: the DbConn guard succeeds
\* when Headers, respectively OrgHeaders, asks for a connection.
Requests ==
    [authorization : Authorizations, db_ok : BOOLEAN, param : Params,
     query : Params, org_db_ok : BOOLEAN]

\* An organization's administration invites, confirms, changes the role of
\* or removes a member.
set_membership(user, org, row) ==
    /\ Served
    /\ users[user].exists
    /\ members[user][org] # row
    /\ members' = [members EXCEPT ![user][org] = row]
    /\ UNCHANGED <<now, users, devices, emergencyVars, mail_enabled,
                   domain_origin, issued, last_decode, last_request, process,
                   attachments, deletion>>

\* The answer to a request that went through one of the organization
\* guards; the handlers behind them only read.
answered_org(req, g, name) ==
    /\ Served
    /\ last_request' = Some([authorization |-> req.authorization,
                             request |-> req,
                             outcome |-> IF g.ok THEN "Success" ELSE g.error,
                             handler |-> IF g.ok THEN name ELSE "none"])
    /\ UNCHANGED <<authFrame, users, devices, issued, last_decode>>

request_org(req) == answered_org(req, OrgHeadersGuard(req), "org")
request_admin(req) == answered_org(req, AdminHeadersGuard(req), "admin")
request_owner(req) == answered_org(req, OwnerHeadersGuard(req), "owner")

NextOrg ==
    \/ reply
    \/ \E u \in Uuids, o \in Orgs, row \in {None} \cup {Some(r) : r \in MemberRows} :
           set_membership(u, o, row)
    \/ \E u \in Uuids, d \in DeviceIds : login(u, d)
    \/ \E req \in Requests : request_org(req)
    \/ \E req \in Requests : request_admin(req)
    \/ \E req \in Requests : request_owner(req)

\* The guards never read the mail setting, and one origin is enough.
InitOrg == Init /\ mail_enabled = FALSE /\ domain_origin = <<"https://a">>

SpecOrg == InitOrg /\ [][NextOrg]_vars

(***************************************************************************)
(* Properties of authentication                                            *)
(***************************************************************************)
\* The token was issued here, carries the issuer of `purpose` and is inside
\* its validity window.
ValidIssued(token, purpose) ==
    /\ token \in issued
    /\ token.claims.iss = IssuerOf(purpose)
    /\ token.claims.nbf <= now /\ now <= token.claims.exp

\* C1: a token issued with the issuer of one purpose (login, invite,
\* delete, verify-email, admin) is refused by the decode function of every
\* other purpose, at any time and also when it is correctly signed and not
\* expired: no decode of a purpose returns claims for it.
C1_CrossPurposeRejected ==
    /\ \A t \in issued : \A p \in Purposes, q \in Purposes :
           (p # q /\ t.claims.iss = IssuerOf(p)) => ~DecodeFor(q, t).ok
    /\ is_some(last_decode) =>
           LET d == unwrap(last_decode) IN
           (d.token \in issued /\ d.token.claims.iss # IssuerOf(d.purpose))
               => ~d.result.ok

\* C1 happens: a delete token, correctly signed and not expired, was handed
\* to the verify-email decode function (both structs have the same fields)
\* and refused.
C1_Witness ==
    /\ is_some(last_decode)
    /\ unwrap(last_decode).purpose = "verifyemail"
    /\ ValidIssued(unwrap(last_decode).token, "delete")
    /\ unwrap(last_decode).token.key = "PRIVATE_RSA_KEY"
    /\ ~unwrap(last_decode).result.ok

\* An issued login token whose stamp the user has since replaced.
StaleLogin(t) ==
    /\ t \in issued
    /\ t.claims.iss = JWT_LOGIN_ISSUER
    /\ t.claims.sstamp < users[t.claims.sub].security_stamp

C2_GuardRejectsStale ==
    \A t \in issued : StaleLogin(t) =>
        \A db_ok \in BOOLEAN : ~HeadersGuard(Some(t), db_ok).ok

C2_StaleNeverServed ==
    (/\ is_none(last_request) /\ is_some(last_request')
     /\ is_some(unwrap(last_request').authorization)
     /\ StaleLogin(unwrap(unwrap(last_request').authorization)))
        => unwrap(last_request').handler = "none"

\* C2: once a user's security stamp has changed, every login token that
\* carries the previous stamp is rejected on every later request, expired
\* or not: the guard refuses it in every state, and no request carrying it
\* reaches a handler.
C2_StaleStampRejected ==
    []C2_GuardRejectsStale /\ [][C2_StaleNeverServed]_vars

\* C2 happens: a login token that is still inside its validity window, for
\* an existing user and device, was presented after the stamp changed and
\* was rejected for its stamp.
C2_Witness ==
    /\ is_some(last_request)
    /\ is_some(unwrap(last_request).authorization)
    /\ StaleLogin(unwrap(unwrap(last_request).authorization))
    /\ ValidIssued(unwrap(unwrap(last_request).authorization), "login")
    /\ unwrap(last_request).outcome = "Invalid security stamp"
    /\ unwrap(last_request).handler = "none"

(***************************************************************************)
(* Properties of the scheduler jobs                                        *)
(***************************************************************************)
RowOf(u) == store[u]
HasRow(u) == store[u] # NoRow
TimeoutRunning == job.running /\ job.name = "timeout"
ReminderRunning == job.running /\ job.name = "reminder"
\* The rows the run in progress has fetched and not yet evaluated.
Unevaluated == {job.pending[i] : i \in DOMAIN job.pending}
MailsOf(u, kind) == {m \in mails : m.ea = u /\ m.kind = kind}
MissingUserPanics ==
    {"Grantor user not found.", "Grantee user not found.",
     "Grantee user invalid."}

\* C3: the timeout job sets a row to RecoveryApproved never before
\* recovery_initiated_at + wait_time_days, and in every run at or after that
\* instant it does set a fetched row that is RecoveryInitiated to
\* RecoveryApproved: when a run of the timeout job ends, no row it fetched
\* is left due and still RecoveryInitiated.
C3_NeverEarly ==
    \A u \in EaUuids :
        (/\ TimeoutRunning
         /\ job' # job
         /\ HasRow(u) /\ RowOf(u).status = RecoveryInitiated
         /\ store'[u] # NoRow /\ store'[u].status = RecoveryApproved)
        => TimeoutDue(RowOf(u))
C3_SetWhenDue ==
    (TimeoutRunning /\ ~job'.running)
    => \A emer \in Unevaluated :
          (/\ TimeoutDue(emer)
           /\ HasRow(emer.uuid)
           /\ RowOf(emer.uuid).status = RecoveryInitiated)
          => store'[emer.uuid].status = RecoveryApproved
C3_ApprovedExactlyWhenDue == [][C3_NeverEarly /\ C3_SetWhenDue]_vars

\* C4: any two reminder mails for the same record are at least one day
\* apart.
C4_RemindersADayApart ==
    \A m1, m2 \in mails :
        (/\ m1.kind = "recovery_reminder" /\ m2.kind = "recovery_reminder"
         /\ m1.ea = m2.ea
         /\ m1.at < m2.at)
        => m2.at >= m1.at + Days(1)

\* C5: when the reminder rule fires for a row, the row the job saves carries
\* last_notification_at = now, and the stored row carries it when the
\* reminder mail is sent.
C5_SavedWithNow ==
    (/\ ReminderRunning /\ job.cur = None /\ job.pending # <<>>
     /\ job' # job
     /\ ReminderDue(Head(job.pending)))
    => store'[Head(job.pending).uuid].last_notification_at = Some(now)
C5_StampedBeforeMail ==
    \A m \in mails' \ mails :
        (m.kind = "recovery_reminder" /\ HasRow(m.ea))
        => RowOf(m.ea).last_notification_at = Some(now)
C5_ReminderStampsLastNotification ==
    [][C5_SavedWithNow /\ C5_StampedBeforeMail]_vars

\* C6: for a record the timeout job has moved to RecoveryApproved, once that
\* run is over the timed-out mail and the approved mail have each been
\* attempted exactly once (mail being enabled).
C6_BothSendsExactlyOnce ==
    \A u \in auto_approved :
        (mail_enabled /\ ~job.running)
        => /\ Cardinality(MailsOf(u, "recovery_timed_out")) = 1
           /\ Cardinality(MailsOf(u, "recovery_approved")) = 1

\* C7: a run that fails on a row whose grantor or grantee is missing still
\* evaluates every other row it fetched: the run does not end with fetched
\* rows left unevaluated.
C7_MissingUserSkipsOnlyThatRow ==
    [][(job.running /\ ~job'.running /\ job'.result \in MissingUserPanics)
       => Unevaluated = {}]_vars

\* C8: a failed mail send does not end the run: the remaining send for the
\* row is still attempted and no fetched row is left unevaluated.
C8_FailedSendNotFatal ==
    [][\A m \in mails' \ mails :
          ~m.ok =>
             /\ job'.running \/ Unevaluated = {}
             /\ m.kind = "recovery_timed_out" =>
                    \E m2 \in mails' :
                        /\ m2.kind = "recovery_approved"
                        /\ m2.ea = m.ea /\ m2.at = m.at]_vars

\* C9: for every timed-out or approved mail the timeout job has attempted,
\* the failed ones included, the record, as long as it is stored, has status
\* RecoveryApproved: the status is written before the sends and a failed
\* send does not undo it.
C9_StatusKeptOnSendFailure ==
    \A m \in mails :
        (m.kind \in {"recovery_timed_out", "recovery_approved"} /\ HasRow(m.ea))
        => RowOf(m.ea).status = RecoveryApproved

\* C9 witness: a send of the timeout job has failed for a row that is
\* stored as RecoveryApproved.
C9_Witness ==
    \E m \in mails :
        /\ m.kind \in {"recovery_timed_out", "recovery_approved"}
        /\ ~m.ok
        /\ HasRow(m.ea) /\ RowOf(m.ea).status = RecoveryApproved
        /\ job.result = "Error on sending email"

\* C10: the stored status of a record never decreases in the order
\* Invited < Accepted < Confirmed < RecoveryInitiated < RecoveryApproved.
C10_StatusNeverDecreases ==
    [][\A u \in EaUuids :
          (HasRow(u) /\ store'[u] # NoRow)
          => store'[u].status >= RowOf(u).status]_vars

\* The step is a step of one of the two scheduler jobs.
JobStep == job' # job

C11_SetIffInitiated ==
    \A u \in EaUuids :
        HasRow(u) =>
            (is_some(RowOf(u).recovery_initiated_at)
                <=> RowOf(u).status \in {RecoveryInitiated, RecoveryApproved})

C11_JobsKeepInitiatedAt ==
    JobStep =>
        \A u \in EaUuids :
            (HasRow(u) /\ store'[u] # NoRow)
            => store'[u].recovery_initiated_at = RowOf(u).recovery_initiated_at

\* C11: in every reachable state a stored record has recovery_initiated_at
\* set exactly when its status is RecoveryInitiated or RecoveryApproved (a
\* new record has it unset), and no step of the timeout job or of the
\* reminder job changes the recovery_initiated_at of a stored record.
C11_InitiatedAtIffRecovery ==
    []C11_SetIffInitiated /\ [][C11_JobsKeepInitiatedAt]_vars

\* C11 happens: the timeout job has moved a record to RecoveryApproved and
\* its recovery_initiated_at is still the instant of the initiation, while
\* another record, not yet initiated, has it unset.
C11_Witness ==
    \E u \in auto_approved, v \in EaUuids :
        /\ HasRow(u) /\ RowOf(u).status = RecoveryApproved
        /\ is_some(RowOf(u).recovery_initiated_at)
        /\ HasRow(v) /\ RowOf(v).status < RecoveryInitiated
        /\ is_none(RowOf(v).recovery_initiated_at)

\* The grantor of the record under `u` that a step wrote or removed.
GrantorOfChange(u) ==
    IF store'[u] # NoRow THEN store'[u].grantor_uuid ELSE RowOf(u).grantor_uuid

\* C12: every step that writes or removes an emergency-access record, by a
\* user action or by a scheduler job, leaves the record's grantor (when the
\* grantor's account exists) with updated_at = now; so no stored record is
\* newer than its grantor's updated_at.
C12_MutationBumpsGrantor ==
    [][\A u \in EaUuids :
          (store'[u] # store[u] /\ users'[GrantorOfChange(u)].exists)
          => /\ users'[GrantorOfChange(u)].updated_at = now
             /\ \A v \in EaUuids :
                    (store'[v] # NoRow
                     /\ store'[v].grantor_uuid = GrantorOfChange(u))
                    => store'[v].updated_at
                           <= users'[GrantorOfChange(u)].updated_at]_vars

\* C12 happens: the timeout job has just saved a record, after the clock
\* has moved, another record has been removed, and the grantor's updated_at
\* is now.
C12_Witness ==
    \E u \in auto_approved, v \in EaUuids :
        /\ now > 0
        /\ HasRow(u) /\ ~HasRow(v) /\ v <= next_uuid
        /\ users[RowOf(u).grantor_uuid].exists
        /\ users[RowOf(u).grantor_uuid].updated_at = now

\* Every stored record is stored under its own id: one record per id.
C13_OnePerId ==
    \A u \in EaUuids : HasRow(u) => RowOf(u).uuid = u

\* A save of a record whose id is absent (an invite creates a fresh id)
\* inserts it and touches no other record.
C13_InsertWhenAbsent ==
    next_uuid' # next_uuid
    => /\ ~HasRow(next_uuid')
       /\ store'[next_uuid'] # NoRow
       /\ store'[next_uuid'].uuid = next_uuid'
       /\ store'[next_uuid'].updated_at = now
       /\ \A v \in EaUuids \ {next_uuid'} : store'[v] = store[v]

\* After a job's save the store holds, under the id of the job's copy, that
\* copy with every field as saved, whatever was stored under the id before,
\* and no other record is touched.
C13_LastSaveWins ==
    (/\ job.running /\ job.cur = None /\ job.pending # <<>> /\ job' # job
     /\ IF job.name = "timeout" THEN TimeoutDue(Head(job.pending))
                                ELSE ReminderDue(Head(job.pending)))
    => LET emer == Head(job.pending)
           saved == IF job.name = "timeout" THEN SavedRow(TimeoutRow(emer))
                                            ELSE SavedRow(ReminderRow(emer))
       IN  /\ store'[emer.uuid] = saved
           /\ \A v \in EaUuids \ {emer.uuid} : store'[v] = store[v]

\* C13: EmergencyAccess::save is an upsert keyed by the record id: a save of
\* an absent id inserts, a save of a present id replaces the fields in
\* place, the store never holds two records for one id, and the stored
\* record carries the fields of the last save.
C13_SaveIsUpsert ==
    []C13_OnePerId /\ [][C13_InsertWhenAbsent /\ C13_LastSaveWins]_vars

\* C13 happens: a job has saved its copy over a record that was created
\* earlier, and the store holds exactly that copy under its id.
C13_Witness ==
    /\ job.running /\ is_some(job.cur)
    /\ store[unwrap(job.cur).uuid] = unwrap(job.cur)
    /\ unwrap(job.cur).updated_at = now
    /\ unwrap(job.cur).created_at < now

(***************************************************************************)
(* Properties of the organization guards.  They are stated on the request  *)
(* just answered: the guards are evaluated on it in the state it met,      *)
(* which answering leaves as it was.                                       *)
(***************************************************************************)
Answered == is_some(last_request)
TheRequest == unwrap(last_request).request
HeadersOutcome ==
    HeadersGuard(TheRequest.authorization, TheRequest.db_ok)
OrgOutcome == OrgHeadersGuard(TheRequest)
AdminOutcome == AdminHeadersGuard(TheRequest)
OwnerOutcome == OwnerHeadersGuard(TheRequest)

\* The role of the caller's membership row in the context organization, for
\* a request that passed the organization stage.
CallerRole ==
    unwrap(find_by_user_and_org(OrgOutcome.value.user,
                                OrgOutcome.value.context_org_uuid)).atype

\* C14: for a request that passed the organization stage, an Owner of the
\* context organization passes the admin-tier and the owner-tier guard, an
\* Admin passes only the admin-tier guard, a Manager or a User passes
\* neither, and passing the owner-tier guard implies passing the admin-tier
\* guard.
C14_RoleChecksMonotonic ==
    (Answered /\ OrgOutcome.ok) =>
        /\ CallerRole = "Owner" => (AdminOutcome.ok /\ OwnerOutcome.ok)
        /\ CallerRole = "Admin" => (AdminOutcome.ok /\ ~OwnerOutcome.ok)
        /\ CallerRole \in {"Manager", "User"}
               => (~AdminOutcome.ok /\ ~OwnerOutcome.ok)
        /\ OwnerOutcome.ok => AdminOutcome.ok

\* C15: the admin-tier guard passes only a caller whose membership row has
\* role Admin or Owner at the time of the request, and the owner-tier guard
\* only one whose row has role Owner.
C15_RoleFromMembershipRow ==
    Answered =>
        /\ AdminOutcome.ok => CallerRole \in {"Admin", "Owner"}
        /\ OwnerOutcome.ok => CallerRole = "Owner"

C16_StagesInOrder ==
    Answered =>
        /\ OrgOutcome.ok => HeadersOutcome.ok
        /\ AdminOutcome.ok => OrgOutcome.ok
        /\ OwnerOutcome.ok => OrgOutcome.ok
        /\ ~HeadersOutcome.ok
               => /\ OrgOutcome = HeadersOutcome
                  /\ AdminOutcome = HeadersOutcome
                  /\ OwnerOutcome = HeadersOutcome
        /\ ~OrgOutcome.ok
               => (AdminOutcome = OrgOutcome /\ OwnerOutcome = OrgOutcome)
        /\ unwrap(last_request).outcome # "Success"
               => unwrap(last_request).handler = "none"

C16_FailureChangesNothing ==
    (/\ last_request' # last_request /\ is_some(last_request')
     /\ unwrap(last_request').outcome # "Success")
    => UNCHANGED <<users, devices, members, store, issued>>

\* C16: OrgHeaders succeeds only if Headers succeeds on the request, and
\* AdminHeaders and OwnerHeaders only if OrgHeaders succeeds; when a stage
\* fails its failure is the outcome of every later stage and of the
\* request, no handler runs, and the request changes no persisted state.
C16_StagesShortCircuit ==
    []C16_StagesInOrder /\ [][C16_FailureChangesNothing]_vars

\* C16 happens: a request to an admin-tier endpoint whose token lists the
\* organization under orgadmin or orgowner, so that the role test alone
\* would pass, failed in the organization stage, and that failure is the
\* answer.
C16_Witness ==
    /\ Answered
    /\ HeadersOutcome.ok /\ ~OrgOutcome.ok
    /\ is_some(get_org_id(TheRequest.param, TheRequest.query))
    /\ is_organization_admin(
           HeadersOutcome.value.claims,
           unwrap(get_org_id(TheRequest.param, TheRequest.query)))
    /\ unwrap(last_request).outcome = OrgOutcome.error
    /\ unwrap(last_request).handler = "none"

\* The organization id of the request resolves, and the caller's membership
\* row for it.
OrgIdOf(req) == get_org_id(req.param, req.query)
RowOfCaller ==
    find_by_user_and_org(HeadersOutcome.value.user, unwrap(OrgIdOf(TheRequest)))
IsConfirmedMember ==
    /\ is_some(OrgIdOf(TheRequest))
    /\ is_some(RowOfCaller)
    /\ unwrap(RowOfCaller).status = "Confirmed"

C17_DistinctFailures ==
    (HeadersOutcome.ok /\ ~OrgOutcome.ok /\ TheRequest.org_db_ok) =>
        /\ is_none(OrgIdOf(TheRequest))
               <=> OrgOutcome.error = "Error getting the organization id"
        /\ (is_some(OrgIdOf(TheRequest)) /\ is_none(RowOfCaller))
               <=> OrgOutcome.error
                      = "The current user isn't member of the organization"
        /\ (is_some(OrgIdOf(TheRequest)) /\ is_some(RowOfCaller))
               <=> OrgOutcome.error
                      = "The current user isn't confirmed member of the organization"

C18_PathBeforeQuery ==
    Answered =>
        LET param == TheRequest.param
            query == TheRequest.query
            path_ok == is_some(param) /\ unwrap(param) \in UuidShaped
            query_ok == is_some(query) /\ unwrap(query) \in UuidShaped
        IN  /\ path_ok => OrgIdOf(TheRequest) = param
            /\ (~path_ok /\ query_ok) => OrgIdOf(TheRequest) = query
            /\ (~path_ok /\ ~query_ok) => is_none(OrgIdOf(TheRequest))
            /\ OrgOutcome.ok => OrgOutcome.value.context_org_uuid
                                    = unwrap(IF path_ok THEN param ELSE query)
            /\ (HeadersOutcome.ok /\ ~path_ok /\ ~query_ok)
                   => /\ ~OrgOutcome.ok
                      /\ OrgOutcome.error = "Error getting the organization id"

\* C18 happens: the path segment was a uuid naming no organization of the
\* caller, the query value the uuid of an organization in which the caller
\* is a confirmed member, and the request failed as that of a non-member:
\* the path segment was taken.
C18_Witness ==
    /\ Answered /\ HeadersOutcome.ok /\ TheRequest.org_db_ok
    /\ TheRequest.param = Some("o9") /\ TheRequest.query = Some("o1")
    /\ is_some(find_by_user_and_org(HeadersOutcome.value.user, "o1"))
    /\ unwrap(find_by_user_and_org(HeadersOutcome.value.user, "o1")).status
          = "Confirmed"
    /\ unwrap(last_request).outcome
          = "The current user isn't member of the organization"

(***************************************************************************)
(* Properties of the failures of Headers and of account deletion           *)
(***************************************************************************)
\* The requests a caller can send for base identity resolution.
HeaderRequests == Authorizations \X BOOLEAN
FailsWith(r, message) ==
    LET g == HeadersGuard(r[1], r[2]) IN ~g.ok /\ g.error = message

UserOfRowExists(row) ==
    /\ users[row.grantor_uuid].exists
    /\ is_some(row.grantee_uuid) => users[unwrap(row.grantee_uuid)].exists

C20_NoRowOfMissingUser ==
    \A u \in EaUuids : HasRow(u) => UserOfRowExists(RowOf(u))

C20_NoFetchOfMissingUser ==
    (~job.running /\ job'.running)
    => \A i \in DOMAIN job'.pending : UserOfRowExists(job'.pending[i])

\* C20: no stored emergency-access record has a grantor_uuid or a
\* grantee_uuid of a user whose account was deleted, and no run of a
\* scheduler job fetches such a record.
C20_DeletedUserLeavesNoRecord ==
    []C20_NoRowOfMissingUser /\ [][C20_NoFetchOfMissingUser]_vars

(***************************************************************************)
(* Properties of token validation                                          *)
(***************************************************************************)
\* The token is valid for the purpose apart from its times: signed with the
\* private key, carrying the purpose's issuer and the purpose's fields.
OtherwiseValid(q, t) ==
    /\ t.key = "PRIVATE_RSA_KEY"
    /\ t.claims.iss = IssuerOf(q)
    /\ DecodeFor(q, [t EXCEPT !.claims.nbf = now, !.claims.exp = now]).ok

\* C21: for every purpose, an otherwise valid token is accepted exactly while
\* now is at most 30 seconds past its exp and its nbf is at most 30 seconds
\* ahead of now; the answer of every decode agrees.
C21_TimeChecksWithLeeway ==
    /\ \A q \in Purposes, t \in issued :
           OtherwiseValid(q, t) =>
               (DecodeFor(q, t).ok
                   <=> (now <= t.claims.exp + 30 /\ t.claims.nbf <= now + 30))
    /\ is_some(last_decode) =>
           LET d == unwrap(last_decode) IN
           d.result.ok =>
               (now <= d.token.claims.exp + 30 /\ d.token.claims.nbf <= now + 30)

\* C21 happens: a token was accepted exactly 30 seconds after its exp.
C21_Witness ==
    /\ is_some(last_decode)
    /\ unwrap(last_decode).result.ok
    /\ now = unwrap(last_decode).token.claims.exp + 30

(***************************************************************************)
(* Properties of the effective origin                                      *)
(***************************************************************************)
\* The host of the request just answered successfully.
HostAnswered == is_some(last_request) /\ is_some(unwrap(last_request).host)
TheHost == unwrap(unwrap(last_request).host)
TheHeaders == unwrap(last_request).headers
TheConfig == unwrap(last_request).config
NoHeaders ==
    [referer |-> None, x_forwarded_proto |-> None, x_forwarded_host |-> None,
     host |-> None]

\* The headers and the configuration never change whether the guard
\* succeeds.
C22_HostNeverDecides ==
    \A h \in HeaderSets, cfg \in Configs, a \in Authorizations,
       db_ok \in BOOLEAN :
        HeadersFromRequest(h, cfg, a, db_ok).ok = HeadersGuard(a, db_ok).ok

\* The last piece of the host is the text.
EndsWith(host, text) == host # <<>> /\ host[Len(host)] = text

\* C22 as stated: the configured domain when set; otherwise the Referer;
\* otherwise the X-Forwarded-Proto / X-Forwarded-Host pair; otherwise the
\* Host header; otherwise an origin with an empty host; the Host header is
\* used only when every higher source is absent; the choice never changes
\* whether the guard succeeds.
C22_StrictPrecedence ==
    /\ C22_HostNeverDecides
    /\ HostAnswered =>
        LET h == TheHeaders
            cfg == TheConfig
            forwarded == is_some(h.x_forwarded_proto)
                            \/ is_some(h.x_forwarded_host)
        IN  /\ cfg.domain_set => TheHost = cfg.domain
            /\ (~cfg.domain_set /\ is_some(h.referer))
                   => TheHost = <<unwrap(h.referer)>>
            /\ (~cfg.domain_set /\ is_none(h.referer) /\ ~forwarded
                   /\ is_some(h.host))
                   => EndsWith(TheHost, unwrap(h.host))
            /\ (is_some(h.host) /\ EndsWith(TheHost, unwrap(h.host)))
                   => (~cfg.domain_set /\ is_none(h.referer) /\ ~forwarded)
            /\ (~cfg.domain_set /\ h = NoHeaders)
                   => EndsWith(TheHost, "://")

\* C22 amended: the configured domain when set; otherwise the Referer;
\* otherwise protocol://host, where the protocol is X-Forwarded-Proto when
\* present, else https when ROCKET_TLS is set, else http, and the host is
\* X-Forwarded-Host when present, else Host when present, else empty, each
\* of the two chosen on its own; the choice never changes whether the guard
\* succeeds.
C22_PrecedencePerPart ==
    /\ C22_HostNeverDecides
    /\ HostAnswered =>
        LET h == TheHeaders
            cfg == TheConfig
            guessed == ~cfg.domain_set /\ is_none(h.referer)
        IN  /\ cfg.domain_set => TheHost = cfg.domain
            /\ (~cfg.domain_set /\ is_some(h.referer))
                   => TheHost = <<unwrap(h.referer)>>
            /\ guessed => (Len(TheHost) >= 2 /\ TheHost[2] = "://")
            /\ (guessed /\ is_some(h.x_forwarded_proto))
                   => TheHost[1] = unwrap(h.x_forwarded_proto)
            /\ (guessed /\ is_none(h.x_forwarded_proto))
                   => TheHost[1] = IF cfg.rocket_tls THEN "https" ELSE "http"
            /\ (guessed /\ is_some(h.x_forwarded_host))
                   => TheHost[3] = unwrap(h.x_forwarded_host)
            /\ (guessed /\ is_none(h.x_forwarded_host) /\ is_some(h.host))
                   => TheHost[3] = unwrap(h.host)
            /\ (guessed /\ is_none(h.x_forwarded_host) /\ is_none(h.host))
                   => Len(TheHost) = 2

\* C22 happens: with no domain configured and no Referer, a request with
\* X-Forwarded-Proto and Host but no X-Forwarded-Host was answered with the
\* forwarded protocol and the Host header's host.
C22_Witness ==
    /\ HostAnswered
    /\ ~TheConfig.domain_set /\ is_none(TheHeaders.referer)
    /\ is_some(TheHeaders.x_forwarded_proto)
    /\ is_none(TheHeaders.x_forwarded_host)
    /\ is_some(TheHeaders.host)
    /\ TheHost = <<"https", "://", "host.example">>

(***************************************************************************)
(* Properties of ClientIp                                                  *)
(***************************************************************************)
IpAnswered == is_some(last_request)
\* The pieces of the header value before its first comma.
FirstToken(v) ==
    LET commas == {i \in DOMAIN v : v[i] = ","}
        n == IF commas = {} THEN Len(v) + 1
             ELSE CHOOSE i \in commas : \A j \in commas : i <= j
    IN  [i \in 1..(n - 1) |-> v[i]]
IsAddress(token) == Len(token) = 1 /\ token[1] \in IpTexts

\* C23: ClientIp always succeeds; its address is the first comma-separated
\* token of the header when the option is enabled, the header is present
\* and that token is an address; otherwise the peer address when there is
\* one; otherwise 0.0.0.0.
C23_ClientIpResolution ==
    IpAnswered =>
        LET r == unwrap(last_request)
            from_header == /\ r.enabled /\ is_some(r.header)
                           /\ IsAddress(FirstToken(unwrap(r.header)))
        IN  /\ r.outcome = "Success"
            /\ from_header => r.ip = Some(FirstToken(unwrap(r.header))[1])
            /\ (~from_header /\ is_some(r.remote)) => r.ip = r.remote
            /\ (~from_header /\ is_none(r.remote)) => r.ip = Some("0.0.0.0")

\* C23 happens: the header was enabled and present with an address after
\* a first token that is none, and the answer carries the peer address.
C23_Witness ==
    /\ IpAnswered
    /\ unwrap(last_request).enabled
    /\ unwrap(last_request).header = Some(<<"bogus", ",", "1.2.3.4">>)
    /\ unwrap(last_request).remote = Some("9.9.9.9")
    /\ unwrap(last_request).ip = Some("9.9.9.9")

(***************************************************************************)
(* Properties of the key material                                          *)
(***************************************************************************)
\* C24: no request is ever answered by a handler while the signing key or
\* the verification key has not been loaded successfully.
C24_KeysLoadedBeforeServing ==
    (is_some(last_request) /\ unwrap(last_request).outcome # "panic")
    => /\ unwrap(last_request).PRIVATE_RSA_KEY = "set"
       /\ unwrap(last_request).PUBLIC_RSA_KEY = "set"

(***************************************************************************)
(* Properties of the jobs against user actions                             *)
(***************************************************************************)
\* The id was handed out and its row has been deleted since: ids are never
\* handed out twice and only EmergencyAccess::delete removes a row.
Removed(u) == u <= next_uuid /\ ~HasRow(u)

\* C25: a removed record stays removed and silent: no step of a scheduler
\* run stores a row under the id of a record that has been deleted, and no
\* mail is sent for such a record.
C25_RemovedStaysRemoved ==
    [][\A u \in EaUuids :
          Removed(u) =>
             /\ store'[u] = NoRow
             /\ \A m \in mails' \ mails : m.ea # u]_vars

\* The reminder job takes the row at the head of its list on to the
\* notification.
ReminderTaken ==
    /\ ReminderRunning /\ job.cur = None /\ job.pending # <<>>
    /\ job'.cur # None

C26_TakenOnlyWhenInitiated ==
    ReminderTaken =>
        LET u == Head(job.pending).uuid IN
        /\ HasRow(u)
        /\ RowOf(u).status = RecoveryInitiated
        /\ is_some(RowOf(u).recovery_initiated_at)
        /\ now >= unwrap(RowOf(u).recovery_initiated_at)
                     + Days(RowOf(u).wait_time_days - 1)

C26_SentOnlyWhenDue ==
    \A m \in mails' \ mails :
        m.kind = "recovery_reminder" =>
            /\ job.cur # None
            /\ is_some(unwrap(job.cur).recovery_initiated_at)
            /\ now >= unwrap(unwrap(job.cur).recovery_initiated_at)
                         + Days(unwrap(job.cur).wait_time_days - 1)

\* C26: the reminder job goes on to send a reminder for a record only if
\* the stored record is then in RecoveryInitiated with recovery_initiated_at
\* set and now >= recovery_initiated_at + (wait_time_days - 1) days: never
\* before that instant and never for a record that has been moved to
\* RecoveryApproved or removed.
C26_ReminderOnlyWhenEligible ==
    [][C26_TakenOnlyWhenInitiated /\ C26_SentOnlyWhenDue]_vars

\* The half of C26 on the instant alone.
C26_NeverEarly == [][C26_SentOnlyWhenDue]_vars

\* The fields no job may change.
FixedFields ==
    {"uuid", "grantor_uuid", "grantee_uuid", "email", "atype",
     "key_encrypted", "wait_time_days", "recovery_initiated_at", "created_at"}

\* What a job step may do to the row with that id, given the row the run
\* fetched for it.
JobWriteAllowed(u, fetched) ==
    /\ fetched.uuid = u
    /\ fetched.status = RecoveryInitiated
    /\ HasRow(u) /\ store'[u] # NoRow
    /\ \A f \in FixedFields : store'[u][f] = RowOf(u)[f]
    /\ job.name = "timeout"
          => store'[u].last_notification_at = RowOf(u).last_notification_at
    /\ job.name = "reminder" => store'[u].status = RowOf(u).status

C27_JobFrame ==
    JobStep =>
        \A u \in EaUuids :
            store'[u] # store[u] =>
                /\ job.running /\ job.pending # <<>>
                /\ JobWriteAllowed(u, Head(job.pending))

\* C27: a step of a scheduler run changes only the row of a record it
\* fetched in RecoveryInitiated, and of that row only status (timeout job),
\* last_notification_at (reminder job) and updated_at: every other field is
\* after the write what the store held just before it.
C27_JobsChangeOnlyTheirFields == [][C27_JobFrame]_vars

\* The same for the writes to a row that nothing has changed or removed
\* since the run fetched it.
C27_FrameWhenUnchangedSinceFetch ==
    [][(JobStep /\ job.running /\ job.pending # <<>>
        /\ store[Head(job.pending).uuid] = Head(job.pending))
       => C27_JobFrame]_vars

\* The scheduler starts a run of a job.
RunStarts ==
    \/ sched'.next_timeout # sched.next_timeout
    \/ sched'.next_reminder # sched.next_reminder

C28_OneRunAtATime ==
    /\ RunStarts => ~job.running
    /\ (JobStep /\ job.running) =>
          /\ job'.name = job.name
          /\ job'.running =>
                \E k \in 0..1 :
                    job'.pending = SubSeq(job.pending, 1 + k, Len(job.pending))

DueWithRunsLeft(u) ==
    /\ HasRow(u) /\ RowOf(u).status = RecoveryInitiated
    /\ TimeoutDue(RowOf(u))
    /\ sched.alive
    /\ sched.next_timeout + Hours(job_frequency_hour)
          <= MaxTicks * Hours(job_frequency_hour)

\* C29: while the scheduler lives, a record that is due in RecoveryInitiated
\* and is not removed becomes RecoveryApproved, whatever missing users and
\* failed sends the runs meet on other records.
C29_DueRecordEventuallyApproved ==
    \A u \in EaUuids :
        DueWithRunsLeft(u)
            ~> \/ ~HasRow(u)
               \/ RowOf(u).status = RecoveryApproved
               \/ ~sched.alive

\* C29 happens: a run of the timeout job has ended in a panic on one
\* record while another was due and left in RecoveryInitiated, the
\* scheduler lived on, and a later run has now approved that other record.
C29_Witness ==
    /\ sched.alive
    /\ \E u \in auto_approved :
          /\ HasRow(u) /\ RowOf(u).status = RecoveryApproved
          /\ RowOf(u).updated_at = now
          /\ \E m \in mails :
                /\ ~m.ok /\ m.ea # u /\ m.at < now
                /\ m.kind \in {"recovery_timed_out", "recovery_approved"}
                /\ unwrap(RowOf(u).recovery_initiated_at)
                      + Days(RowOf(u).wait_time_days) <= m.at

(***************************************************************************)
(* Properties of the attachment deletion                                   *)
(***************************************************************************)
\* Attachment::delete makes at most 1 + 10 attempts, removes the file only
\* of a deleted row, and leaves row and file of an attachment it gave up on.
C30_DeleteBounded ==
    /\ deletion.attempts <= 11
    /\ \A a \in AttachmentIds : ~attachments[a].file => ~attachments[a].row
    /\ \A a \in deletion.failed :
           attachments[a].row /\ attachments[a].file

\* A delete_all_by_cipher that has returned has deleted every row of the
\* cipher but those it gave up on.
C30_BatchGoesOn ==
    (deletion.batch /\ deletion.phase = "returned")
    => \A a \in AttachmentIds : attachments[a].row => a \in deletion.failed

\* C30: Attachment::delete ends after at most 11 attempts, removes the file
\* only after the row is deleted and leaves the file when it gives up; in
\* delete_all_by_cipher giving up on one attachment costs that attachment
\* only: the other attachments of the cipher are deleted all the same.
C30_BoundedAndPerItem == C30_DeleteBounded /\ C30_BatchGoesOn

====
